---------------------------- MODULE Spec2Model ----------------------------
(***************************************************************************)
(* A model of breaker-box's createCircuitBreaker (src/unnamed/part_007,    *)
(* lines 16-177) with the options of parseOptions (src/lib/options.ts).    *)
(*                                                                         *)
(* Time is counted in ticks of one second (the smallest errorWindow and    *)
(* resetAfter parseOptions accepts).  A timer is the number of ticks left  *)
(* before it fires, or NoTimer when it is cleared, fired or never set.     *)
(* Promise reactions are microtasks: the reaction of a call started while  *)
(* closed is one step; the half-open probe's chain is two steps, the       *)
(* .finally callback and then the .then reaction, and no timer fires       *)
(* between the two.                                                        *)
(***************************************************************************)
EXTENDS Integers, Sequences, FiniteSets, TLC

\* ------------------------------------------------------------------ bounds
\* calls alive at once: in flight, or settled with their entry still retained
MaxCalls == 2
\* the larger minimumCandidates tried (the smaller is 1)
MaxMinimumCandidates == 2
\* the larger resetAfter tried is errorWindow + ResetSlack (the smaller is
\* errorWindow, the least parseOptions accepts)
ResetSlack == 1
\* the largest maxAttempts tried for withRetry (the smallest is 1)
MaxAttempts == 3
MaxTimeout == 2
MaxBackoffAttempt == 10

CallIds == 1..MaxCalls
ArgSet == {"arg1", "arg2"}
ErrorNames == {"errorOk", "abortOk"}
Messages == {"ERR_CIRCUIT_BREAKER_DISPOSED", "custom"}
\* errorThreshold as a fraction <<numerator, denominator>>
Thresholds == {<<0, 1>>, <<1, 2>>}

NoCall == 0
NoTimer == -1

\* ------------------------------------------------------------------ values
Undefined == [type |-> "undefined", msg |-> ""]
ErrorOf(name) == [type |-> "Error", msg |-> name]
ReferenceError(disposeMessage) == [type |-> "ReferenceError", msg |-> disposeMessage]
Causes == {ErrorOf(n) : n \in ErrorNames}

\* What a call's promise delivers to its caller.
Pending == [kind |-> "pending", args |-> "", err |-> Undefined]
Resolved(args) == [kind |-> "result", args |-> args, err |-> Undefined]
FallbackResult(args) == [kind |-> "fallback", args |-> args, err |-> Undefined]
Rejected(err) == [kind |-> "rejected", args |-> "", err |-> err]
NoOutcome == [kind |-> "none", args |-> "", err |-> Undefined]

\* ------------------------------------------------------------------ options
OneSecond == 1

\* The assertions of parseOptions: an options object that passes them.
parseOptions(o) ==
    /\ o.errorThreshold[1] >= 0 /\ o.errorThreshold[1] <= o.errorThreshold[2]
    /\ o.errorWindow >= OneSecond
    /\ o.minimumCandidates >= 1
    /\ o.resetAfter >= OneSecond
    /\ o.resetAfter >= o.errorWindow

\* The options tried.  errorIsFailure is the set of errors it returns true
\* for: abortOk, as in the test "re-throws failures".
OptionSpace ==
    [ errorIsFailure : {{ErrorOf("abortOk")}},
      errorThreshold : Thresholds,
      errorWindow : {OneSecond},
      fallback : BOOLEAN,
      minimumCandidates : {0, 1, MaxMinimumCandidates},
      resetAfter : {0, OneSecond, OneSecond + ResetSlack} ]

\* ----------------------------------------------------------------- pipeline
\* The functions a pipeline nests: the two decorators of helpers.ts, the
\* breaker, and the innermost operation, which exposes disposal
\* ("disposableFn", like the mock of helpers.test.ts) or does not ("fn").
Wrappers == {"withRetry", "withTimeout"}

\* A layer: its AbortController (aborted, the message of its reason) and the
\* message its disposal was last invoked with ("" before any).
Layer(kind) == [kind |-> kind, aborted |-> FALSE, reason |-> "", disposedWith |-> ""]

\* The compositions tried, outermost first: the breaker inside a decorator,
\* around decorators, and between them.
Pipelines ==
    { <<Layer("withRetry"), Layer("createCircuitBreaker"), Layer("fn")>>,
      <<Layer("createCircuitBreaker"), Layer("withRetry"), Layer("withTimeout"),
        Layer("disposableFn")>>,
      <<Layer("withTimeout"), Layer("createCircuitBreaker"), Layer("withRetry"),
        Layer("fn")>> }

\* A bug: the breaker exposes no disposal to the decorator around it
exposesDisposeMutBreakerHidden(layer) ==
    layer.kind \notin {"fn", "createCircuitBreaker"}

\* main[disposeKey] is defined
exposesDispose(layer) == layer.kind # "fn"

\* A layer's own part of its disposal: controller.abort(reason) keeps the
\* reason of the first abort; the innermost operation has no controller.
abortLayer(layer, disposeMessage) ==
    IF layer.kind = "disposableFn" \/ layer.aborted
    THEN [layer EXCEPT !.disposedWith = disposeMessage]
    ELSE [layer EXCEPT !.disposedWith = disposeMessage,
                       !.aborted = TRUE, !.reason = disposeMessage]

\* A bug: the wrapped function is disposed with the default message
forwardedMutDefaultMessage(disposeMessage) == "ERR_CIRCUIT_BREAKER_DISPOSED"

\* the message handed to the wrapped function's disposal
forwarded(disposeMessage) == disposeMessage

\* layer i's [disposeKey](disposeMessage): main[disposeKey]?.(disposeMessage)
\* on the layer it wraps, and its own abort
RECURSIVE disposeKey(_, _, _)
disposeKey(p, i, disposeMessage) ==
    IF i > Len(p) \/ ~exposesDispose(p[i]) THEN p
    ELSE disposeKey([p EXCEPT ![i] = abortLayer(@, disposeMessage)],
                    i + 1, forwarded(disposeMessage))

\* the breaker's place in a pipeline
BreakerAt(p) == CHOOSE i \in 1..Len(p) : p[i].kind = "createCircuitBreaker"

\* the disposal of layer i is forwarded down to layer k
reaches(p, i, k) == \A j \in i..k : exposesDispose(p[j])

\* --------------------------------------------------------------- decorators
\* The errors the operation wrapped by a decorator rejects with
HelperErrors == {ErrorOf("errorOk"), ErrorOf("nonRetryable")}

\* new Error(`ERR_CIRCUIT_BREAKER_MAX_ATTEMPTS (${maxAttempts})`, { cause })
MaxAttemptsError(maxAttempts, cause) ==
    [type |-> "Error", msg |-> "ERR_CIRCUIT_BREAKER_MAX_ATTEMPTS",
     maxAttempts |-> maxAttempts, cause |-> cause]

\* withRetry(main, {maxAttempts, shouldRetry}): the closure of the function
\* returned, with the one call it is running.  shouldRetry is given by the
\* errors it returns false for; retryDelay returns a promise that resolves
\* in its own time.  asked and delays list the attempt numbers shouldRetry
\* and retryDelay were called with, invocations counts the calls of main,
\* startedAborted tells whether the call was made after a disposal.
withRetry(maxAttempts, nonRetryable) ==
    [maxAttempts |-> maxAttempts, nonRetryable |-> nonRetryable,
     aborted |-> FALSE, reason |-> "", startedAborted |-> FALSE,
     phase |-> "idle", args |-> "", attempt |-> 0, invocations |-> 0,
     asked |-> <<>>, delays |-> <<>>,
     op |-> "create", settled |-> NoOutcome, out |-> NoOutcome]

\* new Error(timeoutMessage) with the default message, helpers.ts line 167
TimeoutError == ErrorOf("ERR_CIRCUIT_BREAKER_TIMEOUT")

\* withTimeout(main, timeoutMs): the closure of the function returned, with
\* the latest call made of it. out is the promise the call returned, race
\* the promise of abortable(signal, main(...args)), timer the time left on
\* the call's setTimeout and elapsed the time since the call; phase is
\* "racing" while abortable's promise is pending, "then" and "finally"
\* while the reactions of lines 177-178 are queued; main tells what became
\* of the operation's invocation, settled what the operation delivered.
withTimeout(timeoutMs) ==
    [timeoutMs |-> timeoutMs, aborted |-> FALSE, reason |-> "",
     startedAborted |-> FALSE,
     phase |-> "idle", args |-> "", timer |-> NoTimer, elapsed |-> 0,
     main |-> "none", race |-> NoOutcome,
     op |-> "create", settled |-> NoOutcome, out |-> NoOutcome]

\* No call of delayMs made yet: ms the delay asked for, timer the time left
\* on its setTimeout, elapsed the time since the call, listening whether its
\* abort listener is registered, out its promise; aborted and reason are its
\* signal's, by names the backoff strategy that made the call and its inputs.
NoDelay ==
    [ms |-> 0, hasSignal |-> FALSE, aborted |-> FALSE, reason |-> "",
     timer |-> NoTimer, elapsed |-> 0, listening |-> FALSE,
     by |-> "none", maxSeconds |-> 0, attempt |-> 0,
     op |-> "create", out |-> NoOutcome]

VARIABLES
    options,          \* the parsed options (fixed at construction)
    state,            \* "closed" | "open" | "halfOpen"
    failureCause,     \* the cause of the last opening, or Undefined
    fallback,         \* the fallback in use: user's, default, or disposed
    halfOpenPending,  \* the call whose probe promise is stored, or NoCall
    resetTimer,       \* ticks left on the reset timer, or NoTimer
    history,          \* the history Map: promise key -> call owning the entry
    entries,          \* each call's HistoryEntry {status, timer}
    signal,           \* the AbortController's signal
    calls,            \* each call's position
    pipeline,         \* the nested functions, outermost first, the breaker one
    promiseOf,        \* the promise main returned to each call (its identity)
    withRetryFunction,   \* a function withRetry returned: its closure and call
    withTimeoutFunction, \* a function withTimeout returned: its closure and call
    delay,            \* the latest promise of delayMs, its timer and its signal
    ev                \* the last operation and what it let the caller observe

vars == <<options, state, failureCause, fallback, halfOpenPending, resetTimer,
          history, entries, signal, calls, pipeline, promiseOf, ev,
          withRetryFunction, withTimeoutFunction, delay>>

\* the variables of the breaker, and those of the decorators on their own
breakerVars == <<options, state, failureCause, fallback, halfOpenPending,
                 resetTimer, history, entries, signal, calls, pipeline,
                 promiseOf, ev>>
helperVars == <<withRetryFunction, withTimeoutFunction, delay>>

\* The calls the client may have under way at a time, each with its record
Slots == DOMAIN calls

NoEntry == [status |-> "none", timer |-> NoTimer]
\* A call slot with no call in flight
DoneCall == [phase |-> "idle", args |-> "", outcome |-> NoOutcome]

\* An operation as its caller observes it: the arguments of the call (of
\* dispose: the message), what main's promise settled with, what the call's
\* promise settled with (or Pending), whether main was invoked, the
\* lifecycle callbacks run, and the fallback in use when the operation began.
Event(op, args, settled, out, invoked, cbs) ==
    [op |-> op, args |-> args, settled |-> settled, out |-> out,
     invoked |-> invoked, cbs |-> cbs, before |-> fallback]

onOpen(cause) == [name |-> "onOpen", arg |-> cause]
onHalfOpen == [name |-> "onHalfOpen", arg |-> Undefined]
onClose == [name |-> "onClose", arg |-> Undefined]

Init ==
    /\ options \in {o \in OptionSpace : parseOptions(o)}
    /\ state = "closed"
    /\ failureCause = Undefined
    /\ fallback = IF options.fallback THEN [kind |-> "user", msg |-> ""]
                                      ELSE [kind |-> "default", msg |-> ""]
    /\ halfOpenPending = NoCall
    /\ resetTimer = NoTimer
    /\ history = <<>>
    /\ entries = [c \in CallIds |-> NoEntry]
    /\ signal = [aborted |-> FALSE, listeners |-> {}]
    /\ calls = [c \in CallIds |-> DoneCall]
    /\ pipeline = <<Layer("createCircuitBreaker"), Layer("fn")>>
    /\ promiseOf = [c \in CallIds |-> c]
    /\ withRetryFunction = withRetry(1, {})
    /\ withTimeoutFunction = withTimeout(OneSecond)
    /\ delay = NoDelay
    /\ ev = Event("create", "", NoOutcome, NoOutcome, FALSE, <<>>)

\* The circuit part of the closure: what openCircuit and closeCircuit assign,
\* with the lifecycle callbacks invoked so far in the running handler.
Circuit == [state |-> state, failureCause |-> failureCause,
            resetTimer |-> resetTimer, cbs |-> <<>>]

\* The history part of the closure: the Map, the entry objects and the abort
\* listeners createHistoryItem registers.
Hist == [history |-> history, entries |-> entries, listeners |-> signal.listeners]

clearFailure(b) == [b EXCEPT !.failureCause = Undefined]

\* A bug: closing the circuit leaves the reset timer running
closeCircuitMutKeepsTimer(b) ==
    [clearFailure(b) EXCEPT !.state = "closed", !.cbs = Append(@, onClose)]

closeCircuit(b) ==
    [clearFailure(b) EXCEPT !.state = "closed",
                            !.resetTimer = NoTimer,
                            !.cbs = Append(@, onClose)]

\* A bug: pending calls are counted in the total
failureRateMutCountsPending(h) ==
    LET failed == {k \in DOMAIN h.history : h.entries[h.history[k]].status = "rejected"}
        failures == Cardinality(failed)
        total == Cardinality(DOMAIN h.history)
    IN  IF total = 0 \/ total < options.minimumCandidates
        THEN <<0, 1>>
        ELSE <<failures, total>>

\* <<failures, total>>, the fraction failures / total; <<0, 1>> is 0.
failureRate(h) ==
    LET settled == {k \in DOMAIN h.history : h.entries[h.history[k]].status # "pending"}
        failed == {k \in settled : h.entries[h.history[k]].status = "rejected"}
        failures == Cardinality(failed)
        total == Cardinality(settled)
    IN  IF total = 0 \/ total < options.minimumCandidates
        THEN <<0, 1>>
        ELSE <<failures, total>>

\* failureRate() > errorThreshold, on fractions
exceedsThreshold(rate) ==
    rate[1] * options.errorThreshold[2] > options.errorThreshold[1] * rate[2]

\* A bug: openCircuit does not record the cause
openCircuitMutForgetsCause(b, cause) ==
    [b EXCEPT !.state = "open",
              !.resetTimer = options.resetAfter,
              !.cbs = Append(@, onOpen(cause))]

\* A bug: openCircuit arms no reset timer
openCircuitMutArmsNoTimer(b, cause) ==
    [b EXCEPT !.failureCause = cause,
              !.state = "open",
              !.resetTimer = NoTimer,
              !.cbs = Append(@, onOpen(cause))]

openCircuit(b, cause) ==
    [b EXCEPT !.failureCause = cause,
              !.state = "open",
              !.resetTimer = options.resetAfter,
              !.cbs = Append(@, onOpen(cause))]

\* A bug: teardown forgets to delete the record from the history
teardownMutKeepsRecord(h, c, pending) ==
    [h EXCEPT !.entries[c].timer = NoTimer, !.listeners = @ \ {c}]

\* createHistoryItem's teardown for call c, whose promise is the key `pending`.
\* The entry object is set in the Map under this key only, so nothing reaches
\* it afterwards and its record is reset.
teardown(h, c, pending) ==
    [h EXCEPT !.entries[c] = NoEntry,
              !.history = [k \in DOMAIN @ \ {pending} |-> @[k]],
              !.listeners = @ \ {c}]

\* A bug: settle records the outcome of a disposed breaker's call
settleMutIgnoresAbort(h, c, value) ==
    [h EXCEPT !.entries[c] = [status |-> value, timer |-> options.errorWindow]]

\* A bug: the record's removal is scheduled resetAfter after settlement
settleMutWrongDelay(h, c, value) ==
    IF signal.aborted THEN h
    ELSE [h EXCEPT !.entries[c] = [status |-> value, timer |-> options.resetAfter]]

\* createHistoryItem's settle for call c
settle(h, c, value) ==
    IF signal.aborted THEN h
    ELSE [h EXCEPT !.entries[c] = [status |-> value, timer |-> options.errorWindow]]

createHistoryItem(h, c, pending) ==
    [h EXCEPT !.entries[c] = [status |-> "pending", timer |-> NoTimer],
              !.listeners = @ \cup {c},
              !.history = [k \in DOMAIN @ \cup {pending} |->
                              IF k = pending THEN c ELSE @[k]]]

\* A bug: the fallback is called without the caller's arguments
invokeFallbackMutDropsArgs(fb, cause, args) ==
    CASE fb.kind = "user" -> FallbackResult("")
      [] fb.kind = "default" -> Rejected(cause)
      [] fb.kind = "disposed" -> Rejected(ReferenceError(fb.msg))

\* A bug: the error is rethrown although a fallback is configured
invokeFallbackMutRethrows(fb, cause, args) ==
    CASE fb.kind = "user" -> Rejected(cause)
      [] fb.kind = "default" -> Rejected(cause)
      [] fb.kind = "disposed" -> Rejected(ReferenceError(fb.msg))

\* fallback(...args): the user's fallback, the default of line 38 (reject
\* with the failure cause as it is when called) or the one dispose installs.
invokeFallback(fb, cause, args) ==
    CASE fb.kind = "user" -> FallbackResult(args)
      [] fb.kind = "default" -> Rejected(cause)
      [] fb.kind = "disposed" -> Rejected(ReferenceError(fb.msg))

\* A bug: the errors errorIsFailure is false for are the ones thrown
rethrownMutInverted(cause) == signal.aborted \/ cause \notin options.errorIsFailure

\* signal.aborted || errorIsFailure(cause): the error is thrown to the caller
rethrown(cause) == signal.aborted \/ cause \in options.errorIsFailure

\* A bug: the half-open branch forgets the probe already in flight
branchMutIgnoresPendingProbe(st, pendingProbe) ==
    IF st = "closed" THEN "closed"
    ELSE IF st = "open" THEN "fallback"
    ELSE "halfOpen"

\* A bug: the half-open probe is run as a call of a closed circuit is
branchMutProbeAsClosed(st, pendingProbe) ==
    IF st = "open" \/ (st = "halfOpen" /\ pendingProbe # NoCall) THEN "fallback"
    ELSE "closed"

\* execute's if / else-if chain: which branch serves a call
branch(st, pendingProbe) ==
    IF st = "closed" THEN "closed"
    ELSE IF st = "open" \/ pendingProbe # NoCall THEN "fallback"
    ELSE "halfOpen"

\* The key of call c's record in the history Map: the promise main returned
\* to it.  A fresh promise is named after the call it was first returned to.
KeyOf(c) == promiseOf[c]

\* Slots of no call in flight and no entry retained, whose name no promise
\* of a retained entry bears
Free == {c \in Slots : /\ calls[c].phase = "idle" /\ entries[c] = NoEntry
                         /\ \A d \in Slots : entries[d] # NoEntry => promiseOf[d] # c}
InFlight(phase) == {c \in Slots : calls[c].phase = phase}
\* a promise reaction is queued: timers wait for the microtask queue to drain
MicrotaskPending == InFlight("probeSettled") # {}

SetCircuit(b) ==
    /\ state' = b.state
    /\ failureCause' = b.failureCause
    /\ resetTimer' = b.resetTimer

SetHist(h) ==
    /\ history' = h.history
    /\ entries' = h.entries
    /\ signal' = [signal EXCEPT !.listeners = h.listeners]

\* execute(args) up to its first suspension, on the breaker's closure
execute(args) ==
    /\ LET c == IF Free = {} THEN NoCall ELSE CHOOSE x \in Free : \A y \in Free : x <= y
           br == branch(state, halfOpenPending)
       IN  CASE br = "closed" ->
                 /\ c # NoCall
                 /\ promiseOf' = [promiseOf EXCEPT ![c] = c]
                 /\ SetHist(createHistoryItem(Hist, c, c))
                 /\ calls' = [calls EXCEPT ![c] =
                        [phase |-> "closed", args |-> args, outcome |-> NoOutcome]]
                 /\ ev' = Event("call", args, NoOutcome, Pending, TRUE, <<>>)
                 /\ UNCHANGED <<state, failureCause, resetTimer, halfOpenPending>>
             [] br = "fallback" ->
                 /\ ev' = Event("call", args, NoOutcome,
                                invokeFallback(fallback, failureCause, args),
                                FALSE, <<>>)
                 /\ UNCHANGED <<state, failureCause, resetTimer, halfOpenPending,
                                history, entries, signal, calls, promiseOf>>
             [] br = "halfOpen" ->
                 /\ c # NoCall
                 /\ halfOpenPending' = c
                 /\ calls' = [calls EXCEPT ![c] =
                        [phase |-> "probe", args |-> args, outcome |-> NoOutcome]]
                 /\ ev' = Event("call", args, NoOutcome, Pending, TRUE, <<>>)
                 /\ UNCHANGED <<state, failureCause, resetTimer,
                                history, entries, signal, promiseOf>>
    /\ UNCHANGED <<pipeline, options, fallback>>

\* protectedFn(...args), of a breaker around a plain operation
Call(args) ==
    /\ execute(args)
    /\ UNCHANGED helperVars

\* The other calls in flight that main returned call c's promise to
Shared(c) ==
    {d \in Slots \ {c} : calls[d].phase = "closed" /\ promiseOf[d] = promiseOf[c]}

\* What main's promise settles with: its result or one of the errors
MainOutcomes == {Resolved("")} \cup {Rejected(e) : e \in Causes}
\* main's result is a function of its arguments
mainOutcome(outcome, args) ==
    IF outcome.kind = "result" THEN Resolved(args) ELSE outcome

\* The promise of a call started while closed settles: the reaction of
\* pending.then(...) at lines 106-124
SettleClosed(c, outcome) ==
    /\ calls[c].phase = "closed"
    /\ Shared(c) = {}
    /\ LET args == calls[c].args
           pending == KeyOf(c)
       IN  IF outcome.kind = "result"
           THEN /\ SetHist(settle(Hist, c, "resolved"))
                /\ ev' = Event("settle", args, mainOutcome(outcome, args), Resolved(args), FALSE, <<>>)
                /\ UNCHANGED <<state, failureCause, resetTimer>>
           ELSE IF rethrown(outcome.err)
           THEN /\ SetHist(teardown(Hist, c, pending))
                /\ ev' = Event("settle", args, mainOutcome(outcome, args), Rejected(outcome.err), FALSE, <<>>)
                /\ UNCHANGED <<state, failureCause, resetTimer>>
           ELSE LET h == settle(Hist, c, "rejected")
                    b == IF exceedsThreshold(failureRate(h))
                         THEN openCircuit(Circuit, outcome.err)
                         ELSE Circuit
                IN  /\ SetHist(h)
                    /\ SetCircuit(b)
                    /\ ev' = Event("settle", args, mainOutcome(outcome, args),
                                   invokeFallback(fallback, b.failureCause, args),
                                   FALSE, b.cbs)
    /\ calls' = [calls EXCEPT ![c] = DoneCall]
    /\ UNCHANGED <<helperVars, promiseOf, pipeline, options, fallback, halfOpenPending>>

\* main returns to a new call the promise it returned to call d, still
\* pending: history.set(pending, entry) replaces d's entry under that key
CallShared(args, d) ==
    /\ branch(state, halfOpenPending) = "closed"
    /\ calls[d].phase = "closed" /\ promiseOf[d] = d /\ Shared(d) = {}
    /\ Free # {}
    /\ LET c == CHOOSE x \in Free : \A y \in Free : x <= y
       IN  /\ promiseOf' = [promiseOf EXCEPT ![c] = d]
           /\ SetHist(createHistoryItem(Hist, c, d))
           /\ calls' = [calls EXCEPT ![c] =
                  [phase |-> "closed", args |-> args, outcome |-> NoOutcome]]
    /\ ev' = Event("call", args, NoOutcome, Pending, TRUE, <<>>)
    /\ UNCHANGED <<helperVars, pipeline, options, fallback, state, failureCause, resetTimer,
                   halfOpenPending>>

\* One reaction of pending.then(...), lines 107-123, for call c, applied to
\* the circuit r.b and the history r.h the previous reaction left
settleReaction(r, c, outcome) ==
    IF outcome.kind = "result"
    THEN [b |-> r.b, h |-> settle(r.h, c, "resolved"), out |-> outcome]
    ELSE IF rethrown(outcome.err)
    THEN [b |-> r.b, h |-> teardown(r.h, c, KeyOf(c)), out |-> Rejected(outcome.err)]
    ELSE LET h == settle(r.h, c, "rejected")
             b == IF exceedsThreshold(failureRate(h))
                  THEN openCircuit(r.b, outcome.err)
                  ELSE r.b
         IN  [b |-> b, h |-> h,
              out |-> invokeFallback(fallback, b.failureCause, calls[c].args)]

\* A promise returned to two calls settles: the reaction of call d, which
\* registered first, then the reaction of call c
SettleShared(d, c, outcome) ==
    /\ calls[d].phase = "closed" /\ promiseOf[d] = d
    /\ c \in Shared(d)
    /\ LET value == mainOutcome(outcome, calls[d].args)
           r1 == settleReaction([b |-> Circuit, h |-> Hist], d, value)
           r2 == settleReaction(r1, c, value)
       IN  /\ SetCircuit(r2.b)
           /\ SetHist(r2.h)
           /\ ev' = Event("settle", calls[c].args, value, r2.out, FALSE, r2.b.cbs)
    /\ calls' = [calls EXCEPT ![c] = DoneCall, ![d] = DoneCall]
    /\ UNCHANGED <<helperVars, promiseOf, pipeline, options, fallback, halfOpenPending>>

\* A bug: the probe's settlement leaves halfOpenPending set
ProbeFinallyMutKeepsSlot(c, outcome) ==
    /\ calls[c].phase = "probe"
    /\ calls' = [calls EXCEPT ![c].phase = "probeSettled", ![c].outcome = outcome]
    /\ ev' = Event("finally", "", NoOutcome, Pending, FALSE, <<>>)
    /\ UNCHANGED <<helperVars, promiseOf, pipeline, options, state, failureCause, fallback, resetTimer,
                   history, entries, signal, halfOpenPending>>

\* The probe's promise settles: the .finally callback of line 138
ProbeFinally(c, outcome) ==
    /\ calls[c].phase = "probe"
    /\ halfOpenPending' = NoCall
    /\ calls' = [calls EXCEPT ![c].phase = "probeSettled", ![c].outcome = outcome]
    /\ ev' = Event("finally", "", NoOutcome, Pending, FALSE, <<>>)
    /\ UNCHANGED <<helperVars, promiseOf, pipeline, options, state, failureCause, fallback, resetTimer,
                   history, entries, signal>>

\* A bug: the probe's failure re-opens only past the threshold, as a
\* failure of a call started while closed does
reopenCircuitMutChecksThreshold(b, cause) ==
    IF exceedsThreshold(failureRate(Hist)) THEN openCircuit(b, cause) ELSE b

\* The probe failed: "Open the circuit and use fallback", line 150
reopenCircuit(b, cause) == openCircuit(b, cause)

\* The probe's .then reaction, lines 139-153
ProbeThen(c) ==
    /\ calls[c].phase = "probeSettled"
    /\ LET args == calls[c].args
           outcome == calls[c].outcome
       IN  IF outcome.kind = "result"
           THEN LET b == IF signal.aborted THEN Circuit ELSE closeCircuit(Circuit)
                IN  /\ SetCircuit(b)
                    /\ ev' = Event("settle", args, mainOutcome(outcome, args), Resolved(args), FALSE, b.cbs)
           ELSE IF rethrown(outcome.err)
           THEN /\ ev' = Event("settle", args, mainOutcome(outcome, args), Rejected(outcome.err), FALSE, <<>>)
                /\ UNCHANGED <<state, failureCause, resetTimer>>
           ELSE LET b == reopenCircuit(Circuit, outcome.err)
                IN  /\ SetCircuit(b)
                    /\ ev' = Event("settle", args, mainOutcome(outcome, args),
                                   invokeFallback(fallback, b.failureCause, args),
                                   FALSE, b.cbs)
    /\ calls' = [calls EXCEPT ![c] = DoneCall]
    /\ UNCHANGED <<helperVars, promiseOf, pipeline, options, fallback, halfOpenPending, history, entries, signal>>

ArmedEntries == {c \in Slots : entries[c].timer # NoTimer}
DueEntries == {c \in Slots : entries[c].timer = 0}

\* One second passes: every scheduled timer comes one tick closer.  Time
\* does not pass a timer that is due, nor a queued promise reaction.
Tick ==
    /\ ~MicrotaskPending
    /\ resetTimer # NoTimer \/ ArmedEntries # {}
    /\ resetTimer # 0 /\ DueEntries = {}
    /\ resetTimer' = IF resetTimer = NoTimer THEN NoTimer ELSE resetTimer - 1
    /\ entries' = [c \in Slots |->
                     IF entries[c].timer = NoTimer THEN entries[c]
                     ELSE [entries[c] EXCEPT !.timer = @ - 1]]
    /\ ev' = Event("tick", "", NoOutcome, NoOutcome, FALSE, <<>>)
    /\ UNCHANGED <<helperVars, promiseOf, pipeline, options, state, failureCause, fallback, halfOpenPending,
                   history, signal, calls>>

\* The reset timer fires: the callback of lines 73-76
ResetTimerFires ==
    /\ ~MicrotaskPending
    /\ resetTimer = 0
    /\ state' = "halfOpen"
    /\ resetTimer' = NoTimer
    /\ ev' = Event("resetTimer", "", NoOutcome, NoOutcome, FALSE, <<onHalfOpen>>)
    /\ UNCHANGED <<helperVars, promiseOf, pipeline, options, failureCause, fallback, halfOpenPending,
                   history, entries, signal, calls>>

\* An entry's expiry timer fires: teardown, scheduled at line 92
EntryTimerFires(c) ==
    /\ ~MicrotaskPending
    /\ entries[c].timer = 0
    /\ SetHist(teardown(Hist, c, KeyOf(c)))
    /\ ev' = Event("entryTimer", "", NoOutcome, NoOutcome, FALSE, <<>>)
    /\ UNCHANGED <<helperVars, promiseOf, pipeline, options, state, failureCause, fallback, halfOpenPending,
                   resetTimer, calls>>

\* history.forEach((entry) => clearTimeout(entry.timer)); history.clear()
clearHistory(h) ==
    [h EXCEPT !.entries = [c \in Slots |->
                              IF \E k \in DOMAIN h.history : h.history[k] = c
                              THEN [@[c] EXCEPT !.timer = NoTimer]
                              ELSE @[c]],
              !.history = <<>>]

\* controller.abort(reason) runs the abort listeners, each call's teardown,
\* the first time only
RECURSIVE runListeners(_, _)
runListeners(h, cs) ==
    IF cs = {} THEN h
    ELSE LET c == CHOOSE x \in cs : TRUE
         IN  runListeners(teardown(h, c, KeyOf(c)), cs \ {c})

abort(h) == IF signal.aborted THEN h ELSE runListeners(h, h.listeners)

\* A bug: dispose leaves the reset timer running
disposeCircuitMutKeepsTimer(b) == [clearFailure(b) EXCEPT !.state = "open"]

\* A bug: dispose opens the circuit the way openCircuit does, timer included
disposeCircuitMutArmsTimer(b) ==
    [clearFailure(b) EXCEPT !.resetTimer = options.resetAfter, !.state = "open"]

\* dispose's clearFailure(), clearTimeout(resetTimer) and state = "open"
disposeCircuit(b) ==
    [clearFailure(b) EXCEPT !.resetTimer = NoTimer, !.state = "open"]

\* A bug: the reason carries the default message, not the one given
disposedFallbackMutDefaultMessage(disposeMessage) ==
    [kind |-> "disposed", msg |-> "ERR_CIRCUIT_BREAKER_DISPOSED"]

\* the fallback dispose installs: () => Promise.reject(reason)
disposedFallback(disposeMessage) == [kind |-> "disposed", msg |-> disposeMessage]

\* The breaker's own part of its disposal, lines 164 and 166-172
disposeBreaker(disposeMessage) ==
    /\ LET b == disposeCircuit(Circuit)
           h == abort(clearHistory(Hist))
       IN  /\ SetCircuit(b)
           /\ history' = h.history
           /\ entries' = h.entries
           /\ signal' = [aborted |-> TRUE, listeners |-> h.listeners]
    /\ fallback' = disposedFallback(disposeMessage)

\* protectedFn.dispose(disposeMessage), lines 163-173, main[disposeKey] of
\* line 165 included
Dispose(disposeMessage) ==
    /\ disposeBreaker(disposeMessage)
    /\ pipeline' = disposeKey(pipeline, BreakerAt(pipeline), disposeMessage)
    /\ ev' = Event("dispose", disposeMessage, NoOutcome, NoOutcome, FALSE, <<>>)
    /\ UNCHANGED <<helperVars, promiseOf, options, halfOpenPending, calls>>

\* [disposeKey](disposeMessage) of a decorator around the breaker
\* (helpers.ts lines 142-146 and 184-188): it reaches the breaker
DisposeWrapper(i, disposeMessage) ==
    /\ i \in 1..(BreakerAt(pipeline) - 1)
    /\ pipeline' = disposeKey(pipeline, i, disposeMessage)
    /\ IF reaches(pipeline, i, BreakerAt(pipeline))
       THEN disposeBreaker(pipeline'[BreakerAt(pipeline)].disposedWith)
       ELSE UNCHANGED <<state, failureCause, resetTimer, history, entries,
                        signal, fallback>>
    /\ ev' = Event("disposeWrapper", disposeMessage, NoOutcome, NoOutcome, FALSE, <<>>)
    /\ UNCHANGED <<helperVars, promiseOf, options, halfOpenPending, calls>>

Next ==
    \/ \E args \in ArgSet : Call(args)
    \/ \E c \in Slots, outcome \in MainOutcomes : SettleClosed(c, outcome)
    \/ \E c \in Slots, outcome \in MainOutcomes : ProbeFinally(c, outcome)
    \/ \E c \in Slots : ProbeThen(c)
    \/ Tick
    \/ ResetTimerFires
    \/ \E c \in Slots : EntryTimerFires(c)
    \/ \E disposeMessage \in Messages : Dispose(disposeMessage)

Spec == Init /\ [][Next]_vars

\* The breaker with the default errorIsFailure, () => false: every error of
\* main is counted, so failures with different errors occur.
InitDefaultErrorIsFailure ==
    /\ options \in {o \in [ errorIsFailure : {{}},
                             errorThreshold : Thresholds,
                             errorWindow : {OneSecond},
                             fallback : BOOLEAN,
                             minimumCandidates : {1},
                             resetAfter : {OneSecond + ResetSlack} ] : parseOptions(o)}
    /\ state = "closed"
    /\ failureCause = Undefined
    /\ fallback = IF options.fallback THEN [kind |-> "user", msg |-> ""]
                                      ELSE [kind |-> "default", msg |-> ""]
    /\ halfOpenPending = NoCall
    /\ resetTimer = NoTimer
    /\ history = <<>>
    /\ entries = [c \in CallIds |-> NoEntry]
    /\ signal = [aborted |-> FALSE, listeners |-> {}]
    /\ calls = [c \in CallIds |-> DoneCall]
    /\ pipeline = <<Layer("createCircuitBreaker"), Layer("fn")>>
    /\ promiseOf = [c \in CallIds |-> c]
    /\ withRetryFunction = withRetry(1, {})
    /\ withTimeoutFunction = withTimeout(OneSecond)
    /\ delay = NoDelay
    /\ ev = Event("create", "", NoOutcome, NoOutcome, FALSE, <<>>)

SpecDefaultErrorIsFailure == InitDefaultErrorIsFailure /\ [][Next]_vars

\* The breaker around a main that may return to a call the promise it
\* returned to an earlier one (a cached or de-duplicated request).
InitSharedPromise ==
    /\ options \in {o \in [ errorIsFailure : {{ErrorOf("abortOk")}},
                             errorThreshold : Thresholds,
                             errorWindow : {OneSecond},
                             fallback : {TRUE},
                             minimumCandidates : {1, MaxMinimumCandidates},
                             resetAfter : {OneSecond} ] : parseOptions(o)}
    /\ state = "closed"
    /\ failureCause = Undefined
    /\ fallback = [kind |-> "user", msg |-> ""]
    /\ halfOpenPending = NoCall
    /\ resetTimer = NoTimer
    /\ history = <<>>
    /\ entries = [c \in CallIds |-> NoEntry]
    /\ signal = [aborted |-> FALSE, listeners |-> {}]
    /\ calls = [c \in CallIds |-> DoneCall]
    /\ pipeline = <<Layer("createCircuitBreaker"), Layer("fn")>>
    /\ promiseOf = [c \in CallIds |-> c]
    /\ withRetryFunction = withRetry(1, {})
    /\ withTimeoutFunction = withTimeout(OneSecond)
    /\ delay = NoDelay
    /\ ev = Event("create", "", NoOutcome, NoOutcome, FALSE, <<>>)

NextSharedPromise ==
    \/ Next
    \/ \E args \in ArgSet, d \in Slots : CallShared(args, d)
    \/ \E d, c \in Slots, outcome \in MainOutcomes : SettleShared(d, c, outcome)

SpecSharedPromise == InitSharedPromise /\ [][NextSharedPromise]_vars

\* The breaker under a client with one more call under way, so that calls
\* started while closed settle after the circuit opened; resetAfter is
\* longer than errorWindow.
InitStaleCalls ==
    /\ options = [errorIsFailure |-> {ErrorOf("abortOk")}, errorThreshold |-> <<1, 2>>,
                  errorWindow |-> OneSecond, fallback |-> TRUE,
                  minimumCandidates |-> 1, resetAfter |-> OneSecond + ResetSlack]
    /\ parseOptions(options)
    /\ state = "closed"
    /\ failureCause = Undefined
    /\ fallback = [kind |-> "user", msg |-> ""]
    /\ halfOpenPending = NoCall
    /\ resetTimer = NoTimer
    /\ history = <<>>
    /\ entries = [c \in 1..(MaxCalls + 1) |-> NoEntry]
    /\ signal = [aborted |-> FALSE, listeners |-> {}]
    /\ calls = [c \in 1..(MaxCalls + 1) |-> DoneCall]
    /\ pipeline = <<Layer("createCircuitBreaker"), Layer("fn")>>
    /\ promiseOf = [c \in 1..(MaxCalls + 1) |-> c]
    /\ withRetryFunction = withRetry(1, {})
    /\ withTimeoutFunction = withTimeout(OneSecond)
    /\ delay = NoDelay
    /\ ev = Event("create", "", NoOutcome, NoOutcome, FALSE, <<>>)

SpecStaleCalls == InitStaleCalls /\ [][Next]_vars

\* The breaker in a pipeline of decorators: one setting of the options, every
\* composition of Pipelines, and disposal of any layer around the breaker.
InitPipeline ==
    /\ options = [errorIsFailure |-> {ErrorOf("abortOk")}, errorThreshold |-> <<0, 1>>,
                  errorWindow |-> OneSecond, fallback |-> TRUE,
                  minimumCandidates |-> 1, resetAfter |-> OneSecond]
    /\ state = "closed"
    /\ failureCause = Undefined
    /\ fallback = [kind |-> "user", msg |-> ""]
    /\ halfOpenPending = NoCall
    /\ resetTimer = NoTimer
    /\ history = <<>>
    /\ entries = [c \in CallIds |-> NoEntry]
    /\ signal = [aborted |-> FALSE, listeners |-> {}]
    /\ calls = [c \in CallIds |-> DoneCall]
    /\ pipeline \in Pipelines
    /\ promiseOf = [c \in CallIds |-> c]
    /\ withRetryFunction = withRetry(1, {})
    /\ withTimeoutFunction = withTimeout(OneSecond)
    /\ delay = NoDelay
    /\ ev = Event("create", "", NoOutcome, NoOutcome, FALSE, <<>>)

NextPipeline ==
    \/ Next
    \/ \E i \in 1..Len(pipeline), disposeMessage \in Messages : DisposeWrapper(i, disposeMessage)

SpecPipeline == InitPipeline /\ [][NextPipeline]_vars

\* ------------------------------------------------------------- withRetry
\* assert(maxAttempts >= 1), helpers.ts line 116
RetryOptionSpace ==
    {o \in [maxAttempts : 0..MaxAttempts,
            nonRetryable : {{}, {ErrorOf("nonRetryable")}}] : o.maxAttempts >= 1}

\* A bug: retryDelay is given the number of the attempt that failed
catchMutDelayOldAttempt(r, cause) ==
    IF r.attempt >= r.maxAttempts
    THEN [r EXCEPT !.phase = "idle",
                   !.out = Rejected(MaxAttemptsError(r.maxAttempts, cause))]
    ELSE IF cause \in r.nonRetryable
    THEN [r EXCEPT !.asked = Append(@, r.attempt), !.phase = "idle",
                   !.out = Rejected(cause)]
    ELSE IF r.aborted
    THEN [r EXCEPT !.asked = Append(@, r.attempt), !.attempt = @ + 1,
                   !.delays = Append(@, r.attempt),
                   !.phase = "idle", !.out = Rejected(ReferenceError(r.reason))]
    ELSE [r EXCEPT !.asked = Append(@, r.attempt), !.attempt = @ + 1,
                   !.delays = Append(@, r.attempt),
                   !.phase = "delay"]

\* A bug: one attempt too many is allowed
catchMutOffByOne(r, cause) ==
    IF r.attempt > r.maxAttempts
    THEN [r EXCEPT !.phase = "idle",
                   !.out = Rejected(MaxAttemptsError(r.maxAttempts, cause))]
    ELSE IF cause \in r.nonRetryable
    THEN [r EXCEPT !.asked = Append(@, r.attempt), !.phase = "idle",
                   !.out = Rejected(cause)]
    ELSE IF r.aborted
    THEN [r EXCEPT !.asked = Append(@, r.attempt), !.attempt = @ + 1,
                   !.delays = Append(@, r.attempt + 1),
                   !.phase = "idle", !.out = Rejected(ReferenceError(r.reason))]
    ELSE [r EXCEPT !.asked = Append(@, r.attempt), !.attempt = @ + 1,
                   !.delays = Append(@, r.attempt + 1),
                   !.phase = "delay"]

\* The catch block of lines 126-134 and, when it does not throw, attempt++
\* and the call of retryDelay and abortable of lines 136-137, which throws
\* signal.reason when the signal is aborted already
catch(r, cause) ==
    IF r.attempt >= r.maxAttempts
    THEN [r EXCEPT !.phase = "idle",
                   !.out = Rejected(MaxAttemptsError(r.maxAttempts, cause))]
    ELSE IF cause \in r.nonRetryable
    THEN [r EXCEPT !.asked = Append(@, r.attempt), !.phase = "idle",
                   !.out = Rejected(cause)]
    ELSE IF r.aborted
    THEN [r EXCEPT !.asked = Append(@, r.attempt), !.attempt = @ + 1,
                   !.delays = Append(@, r.attempt + 1),
                   !.phase = "idle", !.out = Rejected(ReferenceError(r.reason))]
    ELSE [r EXCEPT !.asked = Append(@, r.attempt), !.attempt = @ + 1,
                   !.delays = Append(@, r.attempt + 1),
                   !.phase = "delay"]

\* withRetryFunction(...args) up to its first await: main is invoked
startRetry(r, args) ==
    [r EXCEPT !.phase = "main", !.args = args,
              !.startedAborted = r.aborted,
              !.attempt = 1, !.invocations = 1,
              !.asked = <<>>, !.delays = <<>>,
              !.op = "call", !.settled = NoOutcome,
              !.out = Pending]

RetryCall(args) ==
    /\ withRetryFunction.phase = "idle"
    /\ withRetryFunction' = startRetry(withRetryFunction, args)
    /\ UNCHANGED <<breakerVars, withTimeoutFunction, delay>>

\* The operation's outcomes: its result or one of its errors
HelperOutcomes == {Resolved("")} \cup {Rejected(e) : e \in HelperErrors}

\* await main(...args) resumes: return the result, or the catch block
resumeRetry(r, outcome) ==
    LET t == [r EXCEPT !.op = "settle",
                       !.settled = mainOutcome(outcome, r.args)]
    IN  IF outcome.kind = "result"
        THEN [t EXCEPT !.phase = "idle", !.out = t.settled]
        ELSE catch(t, outcome.err)

RetryMainSettles(outcome) ==
    /\ withRetryFunction.phase = "main"
    /\ withRetryFunction' = resumeRetry(withRetryFunction, outcome)
    /\ UNCHANGED <<breakerVars, withTimeoutFunction, delay>>

\* A bug: the loop's turn invokes main twice
retryMutInvokesTwice(r) ==
    [r EXCEPT !.phase = "main", !.invocations = @ + 2, !.op = "retry",
              !.settled = NoOutcome]

\* the loop's next turn, line 125: main is invoked again
retry(r) ==
    [r EXCEPT !.phase = "main", !.invocations = @ + 1, !.op = "retry",
              !.settled = NoOutcome]

\* The promise retryDelay returned resolves: await abortable(...) resumes
RetryDelayResolves ==
    /\ withRetryFunction.phase = "delay"
    /\ withRetryFunction' = retry(withRetryFunction)
    /\ UNCHANGED <<breakerVars, withTimeoutFunction, delay>>

\* A bug: the controller is aborted but a pending delay is left to run
abortRetryMutKeepsWaiting(r, disposeMessage) ==
    [r EXCEPT !.aborted = TRUE,
              !.reason = IF r.aborted THEN @ ELSE disposeMessage,
              !.op = "dispose", !.settled = NoOutcome]

\* controller.abort(reason), line 145: a call awaiting abortable(signal,
\* delay) is rejected with the reason by abortable's listener
abortRetry(r, disposeMessage) ==
    IF r.aborted
    THEN [r EXCEPT !.op = "dispose", !.settled = NoOutcome]
    ELSE [r EXCEPT !.aborted = TRUE, !.reason = disposeMessage,
                   !.op = "dispose", !.settled = NoOutcome,
                   !.phase = IF @ = "delay" THEN "idle" ELSE @,
                   !.out = IF r.phase = "delay"
                           THEN Rejected(ReferenceError(disposeMessage))
                           ELSE @]

\* withRetryFunction[disposeKey](disposeMessage), lines 142-146, around an
\* operation that exposes no disposal
RetryDispose(disposeMessage) ==
    /\ withRetryFunction' = abortRetry(withRetryFunction, disposeMessage)
    /\ UNCHANGED <<breakerVars, withTimeoutFunction, delay>>

\* A breaker never called, beside the decorator checked
InitBreakerUnused ==
    /\ options = [errorIsFailure |-> {}, errorThreshold |-> <<0, 1>>,
                  errorWindow |-> OneSecond, fallback |-> FALSE,
                  minimumCandidates |-> 1, resetAfter |-> OneSecond]
    /\ state = "closed"
    /\ failureCause = Undefined
    /\ fallback = [kind |-> "default", msg |-> ""]
    /\ halfOpenPending = NoCall
    /\ resetTimer = NoTimer
    /\ history = <<>>
    /\ entries = [c \in CallIds |-> NoEntry]
    /\ signal = [aborted |-> FALSE, listeners |-> {}]
    /\ calls = [c \in CallIds |-> DoneCall]
    /\ pipeline = <<Layer("createCircuitBreaker"), Layer("fn")>>
    /\ promiseOf = [c \in CallIds |-> c]
    /\ ev = Event("create", "", NoOutcome, NoOutcome, FALSE, <<>>)

InitRetry ==
    /\ InitBreakerUnused
    /\ withRetryFunction \in
          {withRetry(o.maxAttempts, o.nonRetryable) : o \in RetryOptionSpace}
    /\ withTimeoutFunction = withTimeout(OneSecond)
    /\ delay = NoDelay

NextRetry ==
    \/ \E args \in ArgSet : RetryCall(args)
    \/ \E outcome \in HelperOutcomes : RetryMainSettles(outcome)
    \/ RetryDelayResolves
    \/ \E disposeMessage \in Messages : RetryDispose(disposeMessage)

SpecRetry == InitRetry /\ [][NextRetry]_vars

\* ----------------------------------------------------------- withTimeout
\* What the operation does when it is invoked: it returns a promise, or it
\* throws before it returns one
MainBehaviours == {"returns", "throws"}

\* withTimeoutFunction(...args), lines 173-179: the timer is set, then main
\* is invoked inside the executor of the promise returned. An exception of
\* main rejects that promise and nothing clears the timer; otherwise
\* abortable's promise is rejected at once when the signal is aborted
\* (util.ts line 104) and pending with an abort listener when it is not.
timeoutCall(w, args, behaviour) ==
    LET armed == [w EXCEPT !.args = args, !.startedAborted = w.aborted,
                           !.timer = w.timeoutMs, !.elapsed = 0,
                           !.op = "call", !.settled = NoOutcome]
    IN  IF behaviour = "throws"
        THEN [armed EXCEPT !.main = "threw", !.phase = "idle",
                           !.race = NoOutcome,
                           !.out = Rejected(ErrorOf("errorOk"))]
        ELSE IF w.aborted
        THEN [armed EXCEPT !.main = "pending", !.phase = "then",
                           !.race = Rejected(ReferenceError(w.reason)),
                           !.out = Pending]
        ELSE [armed EXCEPT !.main = "pending", !.phase = "racing",
                           !.race = Pending, !.out = Pending]

\* A call of the wrapper. Every call has its own promise and timer; the
\* model follows one call at a time, the next one once the promise of the
\* last has settled and its timer is gone.
TimeoutCall(args, behaviour) ==
    /\ withTimeoutFunction.out.kind # "pending"
    /\ withTimeoutFunction.timer = NoTimer
    /\ withTimeoutFunction.phase \in {"idle", "racing"}
    /\ withTimeoutFunction' = timeoutCall(withTimeoutFunction, args, behaviour)
    /\ UNCHANGED <<breakerVars, withRetryFunction, delay>>

\* The promise main returned settles: abortable's promise settles with it
\* when it is still pending (util.ts lines 109-111)
TimeoutMainSettles(outcome) ==
    /\ withTimeoutFunction.main = "pending"
    /\ LET w == [withTimeoutFunction EXCEPT
                    !.main = "settled", !.op = "settle",
                    !.settled = mainOutcome(outcome, withTimeoutFunction.args)]
       IN  withTimeoutFunction' =
             IF w.phase = "racing"
             THEN [w EXCEPT !.race = w.settled, !.phase = "then"]
             ELSE w
    /\ UNCHANGED <<breakerVars, withRetryFunction, delay>>

\* A bug: the race's outcome replaces the outcome the call already has
onRaceSettledMutOverrides(w) ==
    [w EXCEPT !.out = w.race, !.phase = "finally", !.op = "then"]

\* .then(resolve, reject), line 177: the call's promise takes the outcome
\* of abortable's promise unless it has settled already
onRaceSettled(w) ==
    [w EXCEPT !.out = IF @.kind = "pending" THEN w.race ELSE @,
              !.phase = "finally", !.op = "then"]

TimeoutThen ==
    /\ withTimeoutFunction.phase = "then"
    /\ withTimeoutFunction' = onRaceSettled(withTimeoutFunction)
    /\ UNCHANGED <<breakerVars, withRetryFunction, delay>>

\* .finally(() => clearTimeout(timer)), line 178
TimeoutFinally ==
    /\ withTimeoutFunction.phase = "finally"
    /\ withTimeoutFunction' =
          [withTimeoutFunction EXCEPT !.timer = NoTimer, !.phase = "idle",
                                      !.op = "finally"]
    /\ UNCHANGED <<breakerVars, withRetryFunction, delay>>

\* Time passes while the call's timer is scheduled and no reaction is queued
TimeoutTick ==
    /\ withTimeoutFunction.timer > 0
    /\ withTimeoutFunction.phase \in {"idle", "racing"}
    /\ withTimeoutFunction' =
          [withTimeoutFunction EXCEPT !.timer = @ - OneSecond,
                                      !.elapsed = @ + OneSecond, !.op = "tick"]
    /\ UNCHANGED <<breakerVars, withRetryFunction, delay>>

\* setTimeout(reject, timeoutMs, error), line 175: the timer's callback
\* rejects the call's promise, to no effect when it has settled
onTimeout(w) ==
    [w EXCEPT !.timer = NoTimer, !.op = "fire",
              !.out = IF @.kind = "pending" THEN Rejected(TimeoutError) ELSE @]

TimeoutFires ==
    /\ withTimeoutFunction.timer = 0
    /\ withTimeoutFunction.phase \in {"idle", "racing"}
    /\ withTimeoutFunction' = onTimeout(withTimeoutFunction)
    /\ UNCHANGED <<breakerVars, withRetryFunction, delay>>

\* controller.abort(reason), line 186: abortable's listener rejects its
\* pending promise with the reason; a signal aborted already keeps its reason
abortTimeout(w, disposeMessage) ==
    IF w.aborted
    THEN [w EXCEPT !.op = "dispose"]
    ELSE IF w.phase = "racing"
    THEN [w EXCEPT !.aborted = TRUE, !.reason = disposeMessage,
                   !.op = "dispose",
                   !.race = Rejected(ReferenceError(disposeMessage)),
                   !.phase = "then"]
    ELSE [w EXCEPT !.aborted = TRUE, !.reason = disposeMessage,
                   !.op = "dispose"]

\* withTimeoutFunction[disposeKey](disposeMessage), lines 183-187, around
\* an operation that exposes no disposal
TimeoutDispose(disposeMessage) ==
    /\ withTimeoutFunction' = abortTimeout(withTimeoutFunction, disposeMessage)
    /\ UNCHANGED <<breakerVars, withRetryFunction, delay>>

InitTimeout ==
    /\ InitBreakerUnused
    /\ withRetryFunction = withRetry(1, {})
    /\ withTimeoutFunction \in {withTimeout(t * OneSecond) : t \in 1..MaxTimeout}
    /\ delay = NoDelay

NextTimeout ==
    \/ \E args \in ArgSet, behaviour \in MainBehaviours :
          TimeoutCall(args, behaviour)
    \/ \E outcome \in HelperOutcomes : TimeoutMainSettles(outcome)
    \/ TimeoutThen
    \/ TimeoutFinally
    \/ TimeoutTick
    \/ TimeoutFires
    \/ \E disposeMessage \in Messages : TimeoutDispose(disposeMessage)

SpecTimeout == InitTimeout /\ [][NextTimeout]_vars

\* ------------------------------------------------------ delayMs, backoff
\* Math.max and Math.min on numbers
Max(a, b) == IF a >= b THEN a ELSE b
Min(a, b) == IF a <= b THEN a ELSE b

\* the maxSeconds of the tests: a cap, and Infinity for none
Infinity == 2147483647
MaxSecondsSet == {1, 8, 42, Infinity}

\* A bug: the exponent is the attempt number less one
exponentialBackoffMutExponent(maxSeconds, attempt) ==
    LET num == Max(attempt - 1, 0)
    IN  Min(2 ^ num, maxSeconds)

\* exponentialBackoff's delay in seconds, helpers.ts lines 23-24
exponentialBackoff(maxSeconds, attempt) ==
    LET num == Max(attempt - 2, 0)
    IN  Min(2 ^ num, maxSeconds)

\* (1 + sqrt5) ** n as <<a, b>>, the number a + b * sqrt5; (1 - sqrt5) ** n
\* is then a - b * sqrt5
RECURSIVE goldenPower(_)
goldenPower(n) ==
    IF n = 0 THEN <<1, 0>>
    ELSE LET q == goldenPower(n - 1)
         IN  <<q[1] + 5 * q[2], q[1] + q[2]>>

\* Math.round(x / y) for x >= 0, y > 0
round(x, y) == (2 * x + y) \div (2 * y)

\* Binet's formula, helpers.ts lines 33-34: the difference of the powers is
\* 2 * b * sqrt5, divided by 2 ** n * sqrt5
binet(n) == round(2 * goldenPower(n)[2], 2 ^ n)

\* fibonacciBackoff's delay in seconds, helpers.ts line 54
fibonacciBackoff(maxSeconds, attempt) == Min(binet(attempt), maxSeconds)

\* delayMs(ms, signal), util.ts lines 69-93, for a finite ms >= 0: with a
\* signal aborted already the promise is rejected and no timer is set
delayMs(d, ms, hasSignal) ==
    IF hasSignal /\ d.aborted
    THEN [d EXCEPT !.ms = ms, !.hasSignal = hasSignal, !.timer = NoTimer,
                   !.elapsed = 0, !.listening = FALSE,
                   !.by = "none", !.maxSeconds = 0, !.attempt = 0,
                   !.op = "delayMs",
                   !.out = Rejected(ReferenceError(d.reason))]
    ELSE [d EXCEPT !.ms = ms, !.hasSignal = hasSignal, !.timer = ms,
                   !.elapsed = 0, !.listening = hasSignal,
                   !.by = "none", !.maxSeconds = 0, !.attempt = 0,
                   !.op = "delayMs", !.out = Pending]

\* A call of delayMs, once the promise of the last has settled
DelayCall(ms, hasSignal) ==
    /\ delay.out.kind # "pending"
    /\ delay' = delayMs(delay, ms, hasSignal)
    /\ UNCHANGED <<breakerVars, withRetryFunction, withTimeoutFunction>>

\* The functions useExponentialBackoff and useFibonacciBackoff return,
\* helpers.ts lines 22-26 and 53-56: delayMs(delay * 1_000, signal)
backoff(d, by, maxSeconds, attempt, hasSignal) ==
    LET seconds == IF by = "exponentialBackoff"
                   THEN exponentialBackoff(maxSeconds, attempt)
                   ELSE fibonacciBackoff(maxSeconds, attempt)
    IN  [delayMs(d, seconds * OneSecond, hasSignal) EXCEPT
            !.by = by, !.maxSeconds = maxSeconds, !.attempt = attempt,
            !.op = "backoff"]

BackoffCall(by, maxSeconds, attempt, hasSignal) ==
    /\ delay.out.kind # "pending"
    /\ delay' = backoff(delay, by, maxSeconds, attempt, hasSignal)
    /\ UNCHANGED <<breakerVars, withRetryFunction, withTimeoutFunction>>

\* Time passes while the delay's timer is scheduled
DelayTick ==
    /\ delay.timer > 0
    /\ delay' = [delay EXCEPT !.timer = @ - OneSecond,
                              !.elapsed = @ + OneSecond, !.op = "tick"]
    /\ UNCHANGED <<breakerVars, withRetryFunction, withTimeoutFunction>>

\* A bug: the timer's callback leaves the abort listener registered
onDelayElapsedMutKeepsListener(d) ==
    [d EXCEPT !.timer = NoTimer, !.op = "fire",
              !.out = Resolved("")]

\* The timer's callback, util.ts lines 80-83 (line 92 without a signal)
onDelayElapsed(d) ==
    [d EXCEPT !.timer = NoTimer, !.listening = FALSE, !.op = "fire",
              !.out = Resolved("")]

DelayTimerFires ==
    /\ delay.timer = 0
    /\ delay' = onDelayElapsed(delay)
    /\ UNCHANGED <<breakerVars, withRetryFunction, withTimeoutFunction>>

\* controller.abort(reason) on the delay's signal: onAbort, util.ts lines
\* 85-88, when it is registered
abortDelay(d, disposeMessage) ==
    IF d.aborted THEN [d EXCEPT !.op = "abort"]
    ELSE IF d.listening
    THEN [d EXCEPT !.aborted = TRUE, !.reason = disposeMessage,
                   !.timer = NoTimer, !.listening = FALSE, !.op = "abort",
                   !.out = Rejected(ReferenceError(disposeMessage))]
    ELSE [d EXCEPT !.aborted = TRUE, !.reason = disposeMessage, !.op = "abort"]

DelayAbort(disposeMessage) ==
    /\ delay' = abortDelay(delay, disposeMessage)
    /\ UNCHANGED <<breakerVars, withRetryFunction, withTimeoutFunction>>

InitDelay ==
    /\ InitBreakerUnused
    /\ withRetryFunction = withRetry(1, {})
    /\ withTimeoutFunction = withTimeout(OneSecond)
    /\ delay = NoDelay

NextDelay ==
    \/ \E ms \in 0..MaxTimeout, hasSignal \in BOOLEAN :
          DelayCall(ms * OneSecond, hasSignal)
    \/ \E by \in {"exponentialBackoff", "fibonacciBackoff"},
          maxSeconds \in MaxSecondsSet, attempt \in 1..MaxBackoffAttempt,
          hasSignal \in BOOLEAN :
          BackoffCall(by, maxSeconds, attempt, hasSignal)
    \/ DelayTick
    \/ DelayTimerFires
    \/ \E disposeMessage \in Messages : DelayAbort(disposeMessage)

SpecDelay == InitDelay /\ [][NextDelay]_vars

\* ------------------------------------------------------------- composed
\* createCircuitBreaker(withRetry(withTimeout(op), { retryDelay: backoff }))
\* with backoff = useExponentialBackoff(BackoffCap): the breaker's main is
\* the retry wrapper, whose main is the timeout wrapper, whose main is op.
\* The decorators' closures follow one call, so the client has one call
\* under way at a time.
BackoffCap == 30
ComposedAttempts == 3

\* withTimeoutFunction can be followed for a new call
TimeoutFree ==
    /\ withTimeoutFunction.out.kind # "pending"
    /\ withTimeoutFunction.timer = NoTimer
    /\ withTimeoutFunction.phase \in {"idle", "racing"}

\* protectedFn(...args): execute, and in the closed and half-open branches
\* main(...args), which runs withRetryFunction, withTimeoutFunction and op
\* up to the first await
ComposedCall(args, behaviour) ==
    /\ branch(state, halfOpenPending) # "fallback" =>
          withRetryFunction.phase = "idle" /\ TimeoutFree
    /\ execute(args)
    /\ IF branch(state, halfOpenPending) = "fallback"
       THEN UNCHANGED helperVars
       ELSE /\ withRetryFunction' = startRetry(withRetryFunction, args)
            /\ withTimeoutFunction' =
                  timeoutCall(withTimeoutFunction, args, behaviour)
            /\ UNCHANGED delay

\* The promise withTimeoutFunction returned has settled: await main(...args)
\* resumes in withRetryFunction; a retry calls retryDelay, the backoff
RetryAwaitsTimeout ==
    withRetryFunction.phase = "main" /\
    withTimeoutFunction.out.kind \notin {"pending", "none"}

ComposedRetryResumes ==
    /\ RetryAwaitsTimeout
    /\ LET r == resumeRetry(withRetryFunction, withTimeoutFunction.out)
       IN  /\ withRetryFunction' = r
           /\ delay' = IF Len(r.delays) > Len(withRetryFunction.delays)
                       THEN backoff(delay, "exponentialBackoff", BackoffCap,
                                    r.attempt, TRUE)
                       ELSE delay
    /\ UNCHANGED <<breakerVars, withTimeoutFunction>>

\* The backoff's promise resolved: the loop's next turn invokes main, the
\* timeout wrapper and op
ComposedRetryAgain(behaviour) ==
    /\ withRetryFunction.phase = "delay"
    /\ delay.out.kind = "result"
    /\ TimeoutFree
    /\ withRetryFunction' = retry(withRetryFunction)
    /\ withTimeoutFunction' =
          timeoutCall(withTimeoutFunction, withRetryFunction.args, behaviour)
    /\ UNCHANGED <<breakerVars, delay>>

\* The promise withRetryFunction returned has settled: the breaker's
\* reaction to main's promise
BreakerAwaitsRetry ==
    /\ withRetryFunction.phase = "idle"
    /\ withRetryFunction.out.kind \notin {"pending", "none"}
    /\ \E c \in Slots : calls[c].phase \in {"closed", "probe"}

ComposedSettle(c) ==
    /\ BreakerAwaitsRetry
    /\ \/ SettleClosed(c, withRetryFunction.out)
       \/ ProbeFinally(c, withRetryFunction.out)

\* a promise reaction of some layer is queued
ComposedMicrotaskPending ==
    \/ MicrotaskPending
    \/ withTimeoutFunction.phase \in {"then", "finally"}
    \/ RetryAwaitsTimeout
    \/ BreakerAwaitsRetry

\* One second passes for the timers of every layer
ComposedTick ==
    /\ ~ComposedMicrotaskPending
    /\ \/ resetTimer # NoTimer \/ ArmedEntries # {}
       \/ withTimeoutFunction.timer # NoTimer \/ delay.timer # NoTimer
    /\ resetTimer # 0 /\ DueEntries = {}
    /\ withTimeoutFunction.timer # 0 /\ delay.timer # 0
    /\ resetTimer' = IF resetTimer = NoTimer THEN NoTimer ELSE resetTimer - 1
    /\ entries' = [c \in Slots |->
                     IF entries[c].timer = NoTimer THEN entries[c]
                     ELSE [entries[c] EXCEPT !.timer = @ - 1]]
    /\ withTimeoutFunction' =
          IF withTimeoutFunction.timer = NoTimer THEN withTimeoutFunction
          ELSE [withTimeoutFunction EXCEPT !.timer = @ - OneSecond,
                                           !.elapsed = @ + OneSecond,
                                           !.op = "tick"]
    /\ delay' = IF delay.timer = NoTimer THEN delay
                ELSE [delay EXCEPT !.timer = @ - OneSecond,
                                   !.elapsed = @ + OneSecond, !.op = "tick"]
    /\ ev' = Event("tick", "", NoOutcome, NoOutcome, FALSE, <<>>)
    /\ UNCHANGED <<promiseOf, pipeline, options, state, failureCause, fallback,
                   halfOpenPending, history, signal, calls, withRetryFunction>>

\* protectedFn.dispose(disposeMessage): main[disposeKey] of line 165 is the
\* retry wrapper's disposal, which first disposes the timeout wrapper
\* (helpers.ts line 144) and then aborts its own controller, the signal
\* the backoff's delay listens to; then the breaker's own part
ComposedDispose(disposeMessage) ==
    /\ withTimeoutFunction' = abortTimeout(withTimeoutFunction, disposeMessage)
    /\ withRetryFunction' = abortRetry(withRetryFunction, disposeMessage)
    /\ delay' = abortDelay(delay, disposeMessage)
    /\ disposeBreaker(disposeMessage)
    /\ pipeline' = disposeKey(pipeline, BreakerAt(pipeline), disposeMessage)
    /\ ev' = Event("dispose", disposeMessage, NoOutcome, NoOutcome, FALSE, <<>>)
    /\ UNCHANGED <<promiseOf, options, halfOpenPending, calls>>

InitComposed ==
    /\ options = [errorIsFailure |-> {ErrorOf("nonRetryable")},
                  errorThreshold |-> <<0, 1>>,
                  errorWindow |-> OneSecond, fallback |-> TRUE,
                  minimumCandidates |-> 1, resetAfter |-> OneSecond]
    /\ state = "closed"
    /\ failureCause = Undefined
    /\ fallback = [kind |-> "user", msg |-> ""]
    /\ halfOpenPending = NoCall
    /\ resetTimer = NoTimer
    /\ history = <<>>
    /\ entries = [c \in {1} |-> NoEntry]
    /\ signal = [aborted |-> FALSE, listeners |-> {}]
    /\ calls = [c \in {1} |-> DoneCall]
    /\ pipeline = <<Layer("createCircuitBreaker"), Layer("withRetry"),
                    Layer("withTimeout"), Layer("fn")>>
    /\ promiseOf = [c \in {1} |-> c]
    /\ withRetryFunction = withRetry(ComposedAttempts, {})
    /\ withTimeoutFunction = withTimeout(OneSecond)
    /\ delay = NoDelay
    /\ ev = Event("create", "", NoOutcome, NoOutcome, FALSE, <<>>)

NextComposed ==
    \/ \E args \in ArgSet, behaviour \in MainBehaviours :
          ComposedCall(args, behaviour)
    \/ \E outcome \in HelperOutcomes : TimeoutMainSettles(outcome)
    \/ TimeoutThen
    \/ TimeoutFinally
    \/ TimeoutFires
    \/ ComposedRetryResumes
    \/ \E behaviour \in MainBehaviours : ComposedRetryAgain(behaviour)
    \/ DelayTimerFires
    \/ \E c \in Slots : ComposedSettle(c)
    \/ \E c \in Slots : ProbeThen(c)
    \/ ComposedTick
    \/ ResetTimerFires
    \/ \E c \in Slots : EntryTimerFires(c)
    \/ \E disposeMessage \in Messages : ComposedDispose(disposeMessage)

SpecComposed == InitComposed /\ [][NextComposed]_vars

\* ------------------------------------------------------------------ claims
Disposed == signal.aborted

\* How an open circuit serves a call with these arguments: the user's
\* fallback with the same arguments, or a rejection with the failure cause
ServedAsOpen(args) ==
    IF options.fallback THEN FallbackResult(args) ELSE Rejected(failureCause)

\* C1: at most one half-open probe is in flight at any time.  While the
\* state is halfOpen, a call arriving when no probe is unsettled invokes
\* main, and a call arriving while the probe is unsettled is served as by
\* an open circuit (the fallback with the same arguments, or a rejection
\* with the last failure cause) and does not invoke main.
C1_SingleFlightProbe ==
    [][ /\ Cardinality({c \in CallIds : calls'[c].phase = "probe"}) <= 1
        /\ (state = "halfOpen" /\ ev'.op = "call") =>
              IF InFlight("probe") = {}
              THEN ev'.invoked /\ ev'.out = Pending
              ELSE /\ ~ev'.invoked
                   /\ failureCause \in Causes
                   /\ ev'.out = ServedAsOpen(ev'.args) ]_vars

\* a caller was served while the probe is in flight
C1_Witness ==
    /\ state = "halfOpen"
    /\ InFlight("probe") # {}
    /\ ev.op = "call" /\ ~ev.invoked

\* C3: while the state is open (the breaker not disposed), a call does not
\* invoke main; with a fallback configured it returns fallback(args) with
\* the same arguments, otherwise it rejects with the last failure cause,
\* the value of getLatestError().
C3_OpenServesFallback ==
    [][ (state = "open" /\ ~Disposed /\ ev'.op = "call") =>
          /\ ~ev'.invoked
          /\ failureCause \in Causes
          /\ ev'.out = ServedAsOpen(ev'.args)
          /\ UNCHANGED <<state, failureCause, calls>> ]_vars

\* a call was served while open
C3_Witness ==
    /\ state = "open" /\ ~Disposed
    /\ ev.op = "call" /\ ev.out.kind \in {"fallback", "rejected"}

\* The step is the .then reaction of probe c
ProbeSettles(c) == calls[c].phase = "probeSettled" /\ calls'[c].phase = "idle"

\* C5: when the half-open probe resolves and the breaker is not disposed,
\* the state becomes closed, the failure cause is cleared, the reset timer
\* is cancelled, onClose() is invoked exactly once and the probe's caller
\* gets main's result.
C5_ProbeSuccessCloses ==
    [][ \A c \in CallIds :
          (ProbeSettles(c) /\ calls[c].outcome.kind = "result" /\ ~Disposed) =>
            /\ state' = "closed"
            /\ failureCause' = Undefined
            /\ resetTimer' = NoTimer
            /\ ev'.cbs = <<onClose>>
            /\ ev'.out = Resolved(calls[c].args) ]_vars

\* the probe resolved and closed the circuit
C5_Witness ==
    /\ state = "closed" /\ ~Disposed
    /\ ev.op = "settle" /\ ev.out.kind = "result" /\ ev.cbs = <<onClose>>

\* C6: when the half-open probe rejects with a counted failure (the breaker
\* not disposed, errorIsFailure false for the error), the state becomes
\* open whatever errorThreshold, minimumCandidates and the failure rate
\* are; the cause is recorded, the reset timer armed for resetAfter,
\* onOpen(cause) invoked, and the caller served from the fallback, or
\* rejected with the cause when there is none.
C6_ProbeFailureOpens ==
    [][ \A c \in CallIds :
          ( /\ ProbeSettles(c)
            /\ calls[c].outcome.kind = "rejected"
            /\ calls[c].outcome.err \notin options.errorIsFailure
            /\ ~Disposed ) =>
            /\ state' = "open"
            /\ failureCause' = calls[c].outcome.err
            /\ resetTimer' = options.resetAfter
            /\ ev'.cbs = <<onOpen(calls[c].outcome.err)>>
            /\ ev'.out = IF options.fallback
                         THEN FallbackResult(calls[c].args)
                         ELSE Rejected(calls[c].outcome.err) ]_vars

\* a probe's failure opened the circuit although no record is retained and
\* minimumCandidates asks for more than one: the failure rate is 0
C6_Witness ==
    /\ state = "open" /\ ~Disposed
    /\ ev.op = "settle" /\ ev.settled.kind = "rejected"
    /\ Len(ev.cbs) = 1 /\ ev.cbs[1].name = "onOpen"
    /\ DOMAIN history = {}
    /\ options.minimumCandidates > 1

\* C7: after dispose(message) the state is open for ever, main is never
\* invoked again, and every call rejects with a ReferenceError carrying the
\* message of the latest dispose, a user fallback notwithstanding.
C7_DisposedForever ==
    [][ /\ ev'.op = "dispose" =>
              /\ Disposed' /\ state' = "open"
              /\ fallback' = [kind |-> "disposed", msg |-> ev'.args]
        /\ Disposed =>
              /\ Disposed' /\ state' = "open"
              /\ ~ev'.invoked
              /\ ev'.op # "dispose" => fallback' = fallback
              /\ ev'.op = "call" =>
                    /\ fallback.kind = "disposed"
                    /\ ev'.out = Rejected(ReferenceError(fallback.msg)) ]_vars

\* a call on a disposed breaker with a user fallback rejected with the
\* message given to dispose
C7_Witness ==
    /\ Disposed /\ options.fallback
    /\ ev.op = "call" /\ ev.out = Rejected(ReferenceError("custom"))

\* C8: a call in flight when dispose() runs settles with main's own outcome
\* (its result, or its own error; never the fallback or the disposed
\* error), and its settlement changes neither the state, the failure
\* cause, the history, nor any timer, and invokes no lifecycle callback.
C8_InFlightAfterDispose ==
    [][ (Disposed /\ ev'.op \in {"settle", "finally"}) =>
          /\ UNCHANGED <<state, failureCause, resetTimer, history, entries,
                         signal, fallback>>
          /\ ev'.cbs = <<>>
          /\ ev'.op = "settle" =>
                /\ ev'.settled.kind \in {"result", "rejected"}
                /\ ev'.out = ev'.settled ]_vars

\* a call in flight at dispose rejected afterwards
C8_Witness ==
    /\ Disposed
    /\ ev.op = "settle" /\ ev.settled.kind = "rejected"

\* C9: once disposed, the reset timer and every expiry timer are cancelled
\* and the history is empty, in every later state (in-flight calls settling
\* included); the failure rate is 0.
C9_DisposedNoTimers ==
    Disposed =>
      /\ resetTimer = NoTimer
      /\ \A c \in CallIds : entries[c].timer = NoTimer
      /\ DOMAIN history = {}
      /\ failureRate(Hist) = <<0, 1>>

\* a call in flight at dispose resolved afterwards: settle ran on a
\* disposed breaker
C9_Witness ==
    /\ Disposed
    /\ ev.op = "settle" /\ ev.settled.kind = "result"

\* C10: dispose is idempotent: dispose(message) on a breaker already
\* disposed with that message changes nothing; the state is open, the
\* history empty, no timer scheduled, the rejection the same.
C10_DisposeIdempotent ==
    [][ (Disposed /\ ev'.op = "dispose" /\ fallback.msg = ev'.args) =>
          /\ fallback.kind = "disposed"
          /\ UNCHANGED <<options, state, failureCause, fallback, halfOpenPending,
                         resetTimer, history, entries, signal, calls>>
          /\ state' = "open"
          /\ DOMAIN history' = {}
          /\ resetTimer' = NoTimer
          /\ \A c \in CallIds : entries'[c].timer = NoTimer ]_vars

\* dispose("custom") ran on a breaker already disposed with that message,
\* a call still in flight
C10_Witness ==
    /\ Disposed /\ ev.op = "dispose"
    /\ ev.before = [kind |-> "disposed", msg |-> "custom"]
    /\ ev.args = "custom"
    /\ InFlight("closed") # {}

\* Settled and rejected records retained in a history Map
SettledCount(h, e) ==
    Cardinality({k \in DOMAIN h : e[h[k]].status \in {"resolved", "rejected"}})
RejectedCount(h, e) ==
    Cardinality({k \in DOMAIN h : e[h[k]].status = "rejected"})

\* The step settles a call as a counted failure: main rejected, the breaker
\* is not disposed and errorIsFailure is false for the error
CountedFailure ==
    /\ ev'.op = "settle" /\ ev'.settled.kind = "rejected"
    /\ ev'.settled.err \notin options.errorIsFailure
    /\ ~Disposed

\* C2: a closed circuit becomes open (other than by dispose) exactly when
\* a call settles as a counted failure and, over the settled records
\* retained after it, rejected / total > errorThreshold and
\* total >= minimumCandidates; otherwise it stays closed.
C2_OpensExactlyPastThreshold ==
    [][ (state = "closed" /\ ev'.op # "dispose") =>
          ( state' = "open" <=>
              /\ CountedFailure
              /\ SettledCount(history', entries') >= options.minimumCandidates
              /\ RejectedCount(history', entries') * options.errorThreshold[2]
                   > options.errorThreshold[1] * SettledCount(history', entries') )
      ]_vars

\* C4: an open circuit of an undisposed breaker becomes halfOpen exactly
\* resetAfter after it opened: the reset timer is armed for resetAfter when
\* the state becomes open, only counts down while the state stays open,
\* and the state leaves open for halfOpen only when the timer fires,
\* invoking onHalfOpen().
C4_HalfOpenAfterResetAfter ==
    [][ ~Disposed' =>
          /\ (state # "open" /\ state' = "open") => resetTimer' = options.resetAfter
          /\ (state = "open" /\ state' = "open") =>
                /\ resetTimer' >= 0
                /\ resetTimer' \in {resetTimer, resetTimer - 1}
          /\ (state # "halfOpen" /\ state' = "halfOpen") =>
                /\ state = "open" /\ resetTimer = 0
                /\ ev'.op = "resetTimer" /\ ev'.cbs = <<onHalfOpen>> ]_vars

\* The step is a disposal entered at layer i of the pipeline
DisposalAt(i) ==
    \/ ev'.op = "dispose" /\ i = BreakerAt(pipeline)
    \/ ev'.op = "disposeWrapper" /\ i < BreakerAt(pipeline)
         /\ \A j \in 1..(i - 1) : pipeline'[j] = pipeline[j]
         /\ pipeline'[i].disposedWith = ev'.args

Settles(c) ==
    /\ calls[c].phase \in {"closed", "probeSettled"}
    /\ calls'[c].phase = "idle"

\* the history after the step
HistNext == [history |-> history', entries |-> entries', listeners |-> signal'.listeners]

\* C13 as stated: an error errorIsFailure is false for is rethrown to the
\* caller (no fallback), is not counted and changes no state; an error it
\* is true for is counted as a failure.
C13_RethrowsWhenFalse ==
    [][ \A c \in CallIds :
          (Settles(c) /\ ev'.settled.kind = "rejected" /\ ~Disposed) =>
             IF ev'.settled.err \notin options.errorIsFailure
             THEN /\ ev'.out = Rejected(ev'.settled.err)
                  /\ RejectedCount(history', entries') = RejectedCount(history, entries)
                  /\ UNCHANGED <<state, failureCause, resetTimer>>
             ELSE calls[c].phase = "closed" => entries'[c].status = "rejected" ]_vars

\* C13, amended: an error errorIsFailure is TRUE for is rethrown to the
\* caller at once (no fallback), is counted neither as settled nor as
\* rejected and changes no state and invokes no callback; an error it is
\* false for is counted as a failure: recorded as rejected for a call
\* started while closed, opening the circuit for the probe.
C13_RethrowsWhenTrue ==
    [][ \A c \in CallIds :
          (Settles(c) /\ ev'.settled.kind = "rejected" /\ ~Disposed) =>
             IF ev'.settled.err \in options.errorIsFailure
             THEN /\ ev'.out = Rejected(ev'.settled.err)
                  /\ SettledCount(history', entries') = SettledCount(history, entries)
                  /\ RejectedCount(history', entries') = RejectedCount(history, entries)
                  /\ UNCHANGED <<state, failureCause, resetTimer>>
                  /\ ev'.cbs = <<>>
             ELSE /\ calls[c].phase = "closed" =>
                        /\ entries'[c].status = "rejected"
                        /\ RejectedCount(history', entries')
                             = RejectedCount(history, entries) + 1
                  /\ calls[c].phase = "probeSettled" => state' = "open" ]_vars

\* with a fallback configured, a call started while closed was rejected
\* with abortOk itself while a rejected record is retained
C13_Witness ==
    /\ ~Disposed /\ options.fallback
    /\ ev.op = "settle" /\ ev.settled = Rejected(ErrorOf("abortOk"))
    /\ ev.out = Rejected(ErrorOf("abortOk"))
    /\ RejectedCount(history, entries) = 1

\* C14: when main rejects with an error errorIsFailure is true for, in
\* closed state or as the probe, the error is thrown to the caller without
\* the fallback, the call's record is removed from the history, the failure
\* rate is unchanged and the state does not change (halfOpen stays
\* halfOpen); an error it is false for is recorded as rejected.
C14_TrueIsThrownAndDropped ==
    [][ \A c \in CallIds :
          (Settles(c) /\ ev'.settled.kind = "rejected" /\ ~Disposed) =>
             IF ev'.settled.err \in options.errorIsFailure
             THEN /\ ev'.out = Rejected(ev'.settled.err)
                  /\ KeyOf(c) \notin DOMAIN history'
                  /\ entries'[c] = NoEntry
                  /\ failureRate(HistNext) = failureRate(Hist)
                  /\ state' = state
             ELSE calls[c].phase = "closed" =>
                    /\ KeyOf(c) \in DOMAIN history'
                    /\ entries'[c] = [status |-> "rejected", timer |-> options.errorWindow]
      ]_vars

\* the probe was rejected with abortOk, thrown to the caller of a breaker
\* with a fallback, and the circuit is still halfOpen
C14_Witness ==
    /\ state = "halfOpen" /\ ~Disposed /\ options.fallback
    /\ ev.op = "settle" /\ ev.before.kind = "user"
    /\ ev.out = Rejected(ErrorOf("abortOk"))
    /\ InFlight("probe") = {} /\ InFlight("probeSettled") = {}

\* C15: in every reachable state the failure rate is rejected / settled
\* over the settled records retained in the history, pending calls being in
\* neither count, and 0 while fewer than minimumCandidates settled records
\* are retained; it lies in [0, 1].
C15_FailureRate ==
    LET settled == SettledCount(history, entries)
        rejected == RejectedCount(history, entries)
        rate == failureRate(Hist)
    IN  /\ rate = IF settled = 0 \/ settled < options.minimumCandidates
                  THEN <<0, 1>> ELSE <<rejected, settled>>
        /\ 0 <= rate[1] /\ rate[1] <= rate[2] /\ rate[2] > 0

\* one rejected record and one pending call are retained: the rate is 1/1
C15_Witness ==
    /\ ~Disposed
    /\ \E c, d \in CallIds :
          /\ KeyOf(c) \in DOMAIN history /\ entries[c].status = "rejected"
          /\ KeyOf(d) \in DOMAIN history /\ entries[d].status = "pending"
    /\ failureRate(Hist) = <<1, 1>>

\* The life of call c's record apart from the moment of settlement: created
\* pending when a call starts while closed, kept while the call is in
\* flight, and once settled kept while its timer counts down and removed
\* only by the timer firing, errorWindow after settlement (disposal aside);
\* with every call settled and no expiry timer scheduled the history is
\* empty.
RecordLife(c) ==
    /\ (calls[c].phase = "idle" /\ calls'[c].phase = "closed") =>
          /\ KeyOf(c) \in DOMAIN history'
          /\ entries'[c] = [status |-> "pending", timer |-> NoTimer]
    /\ (calls[c].phase = "closed" /\ calls'[c].phase = "closed" /\ ~Disposed') =>
          KeyOf(c) \in DOMAIN history' /\ entries'[c] = entries[c]
    /\ (entries[c].timer # NoTimer /\ ~Disposed') =>
          IF KeyOf(c) \in DOMAIN history'
          THEN /\ entries'[c].status = entries[c].status
               /\ entries'[c].timer \in {entries[c].timer, entries[c].timer - 1}
               /\ entries'[c].timer >= 0
          ELSE /\ entries[c].timer = 0 /\ ev'.op = "entryTimer"
               /\ entries'[c] = NoEntry
    /\ (InFlight("closed") = {} /\ ArmedEntries = {}) => DOMAIN history = {}

\* C16 as stated: the record of a call started while closed is retained
\* from call start and removed exactly errorWindow after the call settled,
\* unless the breaker is disposed first.
C16_RemovedWindowAfterSettle ==
    [][ \A c \in CallIds :
          /\ RecordLife(c)
          /\ (Settles(c) /\ calls[c].phase = "closed" /\ ~Disposed) =>
                /\ KeyOf(c) \in DOMAIN history'
                /\ entries'[c].timer = options.errorWindow ]_vars

\* C16, amended: the record of a call started while closed is retained from
\* call start and removed exactly errorWindow after the call settled,
\* unless the breaker is disposed first or the call rejected with an error
\* errorIsFailure is true for, whose record is removed at settlement.
C16_RemovedWindowAfterCounted ==
    [][ \A c \in CallIds :
          /\ RecordLife(c)
          /\ (Settles(c) /\ calls[c].phase = "closed" /\ ~Disposed) =>
                IF ev'.settled.kind = "rejected"
                   /\ ev'.settled.err \in options.errorIsFailure
                THEN KeyOf(c) \notin DOMAIN history' /\ entries'[c] = NoEntry
                ELSE /\ KeyOf(c) \in DOMAIN history'
                     /\ entries'[c].timer = options.errorWindow
                     /\ entries'[c].status =
                           IF ev'.settled.kind = "result" THEN "resolved" ELSE "rejected"
      ]_vars

\* the last settled record expired: the history is empty, no expiry timer
\* is scheduled and the failure rate is 0 again
C16_Witness ==
    /\ ~Disposed /\ ev.op = "entryTimer"
    /\ DOMAIN history = {} /\ ArmedEntries = {}
    /\ InFlight("closed") = {}
    /\ failureRate(Hist) = <<0, 1>>

\* The step settles call c, started while closed, as a counted failure
ClosedCountedFailure(c) ==
    /\ Settles(c) /\ calls[c].phase = "closed"
    /\ CountedFailure

\* C17: with a fallback configured, a call started while closed whose main
\* rejects with a counted failure is answered by fallback(args) with the
\* same arguments, whether or not the failure opens the circuit; main was
\* invoked once, when the call started, and is not invoked again.
C17_ClosedFailureUsesFallback ==
    [][ \A c \in CallIds :
          /\ (calls[c].phase = "idle" /\ calls'[c].phase = "closed") =>
                ev'.invoked /\ ev'.out = Pending
          /\ (ClosedCountedFailure(c) /\ options.fallback) =>
                /\ ~ev'.invoked
                /\ ev'.out = FallbackResult(calls[c].args) ]_vars

\* the failure was answered by the fallback and the circuit stayed closed
C17_Witness ==
    /\ state = "closed" /\ ~Disposed
    /\ ev.op = "settle" /\ ev.settled = Rejected(ErrorOf("errorOk"))
    /\ ev.out = FallbackResult("arg2")
    /\ RejectedCount(history, entries) = 1

\* C18: with no fallback configured, a call started while closed whose main
\* rejects with a counted error e rejects with e itself, whether or not
\* the failure opens the circuit.
C18_ClosedFailureRethrows ==
    [][ \A c \in CallIds :
          (ClosedCountedFailure(c) /\ ~options.fallback) =>
             ev'.out = Rejected(ev'.settled.err) ]_vars

\* C19: a call's effect on the history, the failure cause and the state,
\* with the lifecycle callback, is applied in the step that settles the
\* call's promise, and nothing of the call is left to run afterwards: a
\* resolved call is recorded resolved, a counted failure rejected; a
\* failure past the threshold and a failed probe leave the state open with
\* that error as the latest error and onOpen invoked; a resolved probe
\* leaves the state closed with onClose invoked.
C19_EffectsBeforeDelivery ==
    [][ \A c \in CallIds :
          (Settles(c) /\ ~Disposed) =>
             /\ ev'.out.kind \in {"result", "fallback", "rejected"}
             /\ calls'[c] = DoneCall
             /\ (calls[c].phase = "closed" /\ ev'.settled.kind = "result") =>
                   entries'[c].status = "resolved"
             /\ ClosedCountedFailure(c) =>
                   /\ entries'[c].status = "rejected"
                   /\ exceedsThreshold(failureRate(HistNext)) =>
                         /\ state' = "open"
                         /\ failureCause' = ev'.settled.err
                         /\ ev'.cbs = <<onOpen(ev'.settled.err)>>
             /\ (calls[c].phase = "probeSettled" /\ ev'.settled.kind = "result") =>
                   /\ state' = "closed" /\ failureCause' = Undefined
                   /\ ev'.cbs = <<onClose>>
             /\ (calls[c].phase = "probeSettled" /\ CountedFailure) =>
                   /\ state' = "open" /\ failureCause' = ev'.settled.err
                   /\ ev'.cbs = <<onOpen(ev'.settled.err)>> ]_vars

\* a call started while closed was answered after its failure opened the
\* circuit: the state is open, the latest error is the call's, its record
\* is rejected
C19_Witness ==
    /\ state = "open" /\ ~Disposed
    /\ ev.op = "settle" /\ ev.settled = Rejected(ErrorOf("errorOk"))
    /\ failureCause = ErrorOf("errorOk")
    /\ ev.cbs = <<onOpen(ErrorOf("errorOk"))>>
    /\ RejectedCount(history, entries) >= 1
    /\ InFlight("closed") = {} /\ InFlight("probeSettled") = {}

\* C20: the lifecycle callbacks mirror the state changes one to one: a step
\* that changes the state (other than a disposal) invokes exactly the one
\* callback of the new state, onOpen with the recorded cause, onHalfOpen
\* only from open, and a step that leaves the state as it is invokes none.
C20_CallbacksMirrorTransitions ==
    [][ ev'.op \notin {"dispose", "disposeWrapper"} =>
          /\ ev'.cbs =
                IF state' = state THEN <<>>
                ELSE IF state' = "open" THEN <<onOpen(failureCause')>>
                ELSE IF state' = "closed" THEN <<onClose>>
                ELSE <<onHalfOpen>>
          /\ (state' = "halfOpen" /\ state # "halfOpen") => state = "open" ]_vars

\* C21: getLatestError() is undefined whenever the state is closed or the
\* breaker is disposed; on an undisposed breaker whose state is open or
\* halfOpen it is the error that triggered the most recent change of the
\* state to open: it is set to the failing call's error when the state
\* becomes open and is not changed while the state stays open or halfOpen.
C21_LatestErrorIsOpeningError ==
    [][ /\ (state' = "closed" \/ Disposed') => failureCause' = Undefined
        /\ (~Disposed' /\ state' # "closed") =>
              IF state # "open" /\ state' = "open"
              THEN failureCause' = ev'.settled.err /\ failureCause' \in Causes
              ELSE failureCause' = failureCause ]_vars

\* C22: while closed any number of calls may be in flight, and each
\* invocation has its own record in the history, whatever promise main
\* returned to it: every call in flight that started while closed, and
\* every call settled within the window, owns a record of the history, so
\* the settled records counted are as many as the calls settled within the
\* window.
C22_RecordPerInvocation ==
    ~Disposed =>
      /\ \A c \in CallIds :
            (calls[c].phase = "closed" \/ entries[c].timer # NoTimer) =>
               \E k \in DOMAIN history : history[k] = c
      /\ SettledCount(history, entries)
           = Cardinality({c \in CallIds : entries[c].status \in {"resolved", "rejected"}})

C24_NonRetryableRethrown ==
    LET r == withRetryFunction
    IN  ( /\ r.op = "settle" /\ r.settled.kind = "rejected"
          /\ r.settled.err \in r.nonRetryable ) =>
           /\ r.phase = "idle"
           /\ r.out = Rejected(r.settled.err)
           /\ Len(r.delays) = r.attempt - 1

\* C25: when the operation resolves on attempt k, the call resolves with
\* that result after exactly k invocations; a call invokes the operation at
\* least once and at most maxAttempts times.
C25_RetrySuccess ==
    LET r == withRetryFunction
    IN  /\ r.attempt >= 1 => (1 <= r.invocations /\ r.invocations <= r.maxAttempts)
        /\ (r.op = "settle" /\ r.settled.kind = "result") =>
              /\ r.phase = "idle"
              /\ r.out = Resolved(r.args)
              /\ r.invocations = r.attempt
              /\ Len(r.asked) = r.attempt - 1

\* the call resolved on its third attempt
C25_Witness ==
    /\ withRetryFunction.op = "settle"
    /\ withRetryFunction.out = Resolved("arg2")
    /\ withRetryFunction.invocations = 3
    /\ withRetryFunction.asked = <<1, 2>>

\* C26: between attempt n and attempt n + 1 retryDelay(n + 1, signal) is
\* called exactly once, so retryDelay sees 2, 3, ... in order and
\* shouldRetry sees 1, 2, ...; the operation is invoked again only when
\* the delay's promise has resolved.
C26_DelayProtocol ==
    [][ LET r == withRetryFunction
            q == withRetryFunction'
        IN  /\ q.delays = [i \in 1..Len(q.delays) |-> i + 1]
            /\ q.asked = [i \in 1..Len(q.asked) |-> i]
            /\ q.phase \in {"main", "delay"} =>
                  /\ Len(q.delays) = q.attempt - 1
                  /\ Len(q.asked) = q.attempt - 1
            /\ q.phase = "main" => q.invocations = q.attempt
            /\ q.phase = "delay" => q.invocations = q.attempt - 1
            /\ (q.op # "call" /\ q.invocations # r.invocations) =>
                  /\ r.phase = "delay" /\ q.op = "retry"
                  /\ q.invocations = r.invocations + 1 ]_vars

\* the third attempt is running after the delays of attempts 2 and 3
C26_Witness ==
    /\ withRetryFunction.phase = "main" /\ withRetryFunction.op = "retry"
    /\ withRetryFunction.delays = <<2, 3>>
    /\ withRetryFunction.invocations = 3

\* C27: when a retry wrapper is disposed while its call awaits the delay
\* between attempts, the call rejects at once with the ReferenceError of
\* the dispose message, and the operation is not invoked again for it.
C27_DisposeEndsDelay ==
    [][ LET r == withRetryFunction
            q == withRetryFunction'
        IN  /\ (r.phase = "delay" /\ q # r /\ q.op = "dispose") =>
                  /\ q.phase = "idle"
                  /\ q.aborted /\ q.reason \in Messages
                  /\ q.out = Rejected(ReferenceError(q.reason))
                  /\ q.invocations = r.invocations
            /\ (r.phase = "delay" /\ q.phase = "main") => ~r.aborted ]_vars

\* the wrapper was disposed with "custom" during the delay after the first
\* attempt: the call rejected with one invocation made of three allowed
C27_Witness ==
    /\ withRetryFunction.op = "dispose" /\ withRetryFunction.phase = "idle"
    /\ withRetryFunction.out = Rejected(ReferenceError("custom"))
    /\ withRetryFunction.delays = <<2>>
    /\ withRetryFunction.invocations = 1 /\ withRetryFunction.maxAttempts = 3

\* C28: every call of a retry or timeout wrapper made after its disposal
\* rejects with the ReferenceError of the dispose message, whatever the
\* operation returns.
C28_DisposedWrapperRejects ==
    /\ ( /\ withRetryFunction.startedAborted
         /\ withRetryFunction.phase = "idle" ) =>
          withRetryFunction.out = Rejected(ReferenceError(withRetryFunction.reason))
    /\ ( /\ withTimeoutFunction.startedAborted
         /\ withTimeoutFunction.phase = "idle" ) =>
          withTimeoutFunction.out = Rejected(ReferenceError(withTimeoutFunction.reason))

\* What a call of the timeout wrapper is bound to deliver: the outcome of
\* its promise or, while the reaction that copies it is queued, the outcome
\* of the race
Decided(w) ==
    IF w.out.kind # "pending" THEN w.out
    ELSE IF w.phase = "then" THEN w.race
    ELSE Pending

\* C29: a call of the timeout wrapper settles once, with the outcome of the
\* first of: the operation resolves (its value), the operation rejects (its
\* error), timeoutMs elapses (the timeout error, exactly timeoutMs after
\* the call), the wrapper is disposed (ReferenceError of the dispose
\* message); no later event, the operation's result after a timeout
\* included, changes the outcome.
C29_TimeoutRace ==
    [][ LET w == withTimeoutFunction
            q == withTimeoutFunction'
        IN  /\ (Decided(w).kind \notin {"pending", "none"} /\ q.op # "call") =>
                  Decided(q) = Decided(w)
            /\ (w.out.kind \notin {"pending", "none"} /\ q.op # "call") =>
                  q.out = w.out
            /\ q.phase \in {"finally", "idle"} => q.out.kind # "pending"
            /\ (w.out.kind = "pending" /\ Decided(w) = Pending /\ q # w) =>
                  CASE q.op = "settle" ->
                         /\ Decided(q) = q.settled
                         /\ q.settled \in {Resolved(w.args)} \cup
                                           {Rejected(e) : e \in HelperErrors}
                    [] q.op = "fire" ->
                         /\ q.out = Rejected(TimeoutError)
                         /\ w.elapsed = w.timeoutMs
                    [] q.op = "dispose" ->
                         /\ q.reason \in Messages
                         /\ Decided(q) = Rejected(ReferenceError(q.reason))
                    [] q.op = "tick" ->
                         /\ Decided(q) = Pending
                         /\ q.elapsed <= q.timeoutMs
                    [] OTHER -> FALSE ]_vars

\* the call timed out and the operation's result came afterwards
C29_Witness ==
    /\ withTimeoutFunction.out = Rejected(TimeoutError)
    /\ withTimeoutFunction.main = "settled"
    /\ withTimeoutFunction.settled = Resolved("arg1")
    /\ withTimeoutFunction.phase = "idle"

\* C30: once a call of the timeout wrapper has settled, by the operation
\* resolving, rejecting or throwing, by the timeout or by disposal, and the
\* reactions of the settlement have run, the call's timer is not scheduled.
C30_NoTimerLeft ==
    ( /\ withTimeoutFunction.out.kind \notin {"pending", "none"}
      /\ withTimeoutFunction.phase \notin {"then", "finally"} ) =>
       withTimeoutFunction.timer = NoTimer

\* C34: while the breaker is not disposed, the reset timer is armed exactly
\* when the state is open (there is one resetTimer), and the reset timer
\* fires in the open state only.
C34_ResetTimerIffOpen ==
    [][ /\ ~Disposed => (resetTimer # NoTimer <=> state = "open")
        /\ ~Disposed' => (resetTimer' # NoTimer <=> state' = "open")
        /\ ev'.op = "resetTimer" =>
              /\ state = "open" /\ ~Disposed
              /\ state' = "halfOpen" ]_vars

\* the reset timer fired and nothing is armed while halfOpen
C34_Witness ==
    /\ ev.op = "resetTimer" /\ state = "halfOpen" /\ resetTimer = NoTimer

\* C35: getState() only changes closed -> open, open -> halfOpen,
\* halfOpen -> closed, halfOpen -> open by the probe's failure, and to open
\* by disposal; while halfOpen only the probe's outcome or disposal changes
\* the state, the settlement of a call started while closed does not.
C35_StateChanges ==
    [][ \/ state' = state
        \/ ev'.op = "dispose" /\ state' = "open"
        \/ state = "closed" /\ state' = "open"
        \/ state = "open" /\ state' = "halfOpen"
        \/ /\ state = "halfOpen" /\ state' \in {"closed", "open"}
           /\ \E c \in CallIds : ProbeSettles(c) ]_vars

\* C36: from the moment the half-open probe has settled as a counted
\* failure until the reset timer next elapses, no call invokes main: no
\* caller finds the state halfOpen with no probe outstanding between the
\* probe's settlement and the re-opening (or closing) of the circuit.
C36_NoSecondProbe ==
    [][ ( /\ InFlight("probeSettled") # {}
          /\ ev'.op = "call" ) => ~ev'.invoked ]_vars

\* C37: the settlement of the probe, whatever its outcome and also after
\* disposal, clears halfOpenPending; halfOpenPending is only ever set while
\* its probe is unsettled, so a call that finds the state halfOpen and no
\* probe in flight invokes main.
C37_ProbeSlotReleased ==
    [][ /\ \A c \in CallIds :
              (calls[c].phase = "probe" /\ calls'[c].phase # "probe") =>
                 halfOpenPending' = NoCall
        /\ halfOpenPending # NoCall => calls[halfOpenPending].phase = "probe"
        /\ halfOpenPending' # NoCall => calls'[halfOpenPending'].phase = "probe"
        /\ ( /\ state = "halfOpen" /\ InFlight("probe") = {}
             /\ ev'.op = "call" ) =>
              ev'.invoked /\ halfOpenPending' # NoCall ]_vars

\* the probe ended with an error errorIsFailure is true for: the state is
\* still halfOpen, and the next call has started a new probe
C37_Witness ==
    /\ state = "halfOpen" /\ ~Disposed
    /\ ev.op = "call" /\ ev.invoked
    /\ halfOpenPending # NoCall
    /\ failureCause # Undefined
    /\ resetTimer = NoTimer

\* C39: right after every change of the state from halfOpen to closed the
\* failure rate is 0 and no record of the history is rejected.
C39_CleanHistoryOnClose ==
    [][ (state = "halfOpen" /\ state' = "closed") =>
          /\ RejectedCount(history', entries') = 0
          /\ failureRate(HistNext)[1] = 0 ]_vars

\* C40: a call made while the circuit is open or halfOpen, short-circuited
\* or the probe, creates, settles and removes no history record and
\* schedules no expiry timer, when it is made and when it settles.
C40_OpenCallsLeaveHistory ==
    [][ /\ (state # "closed" /\ ev'.op = "call") =>
              UNCHANGED <<history, entries>>
        /\ \A c \in CallIds :
              (calls[c].phase \in {"probe", "probeSettled"} /\ calls'[c] # calls[c]) =>
                 UNCHANGED <<history, entries>> ]_vars

\* a probe settled while a record of an earlier call is in the history
C40_Witness ==
    /\ ev.op = "settle" /\ ev.settled.kind = "rejected"
    /\ state = "open" /\ ~Disposed
    /\ history # <<>>
    /\ \A c \in CallIds : calls[c].phase # "closed"
    /\ \E c \in CallIds : entries[c].status = "resolved"

\* C32: the promise of delayMs(ms, signal) settles once: it resolves when
\* ms have elapsed if the signal was not aborted before, it is rejected with
\* the abort reason at the abort otherwise (at the call, with no timer set,
\* when the signal is aborted already); once settled, its timer is not
\* scheduled.
C32_CancellableDelay ==
    [][ LET d == delay
            q == delay'
            called == q.op \in {"delayMs", "backoff"}
        IN  /\ (d.out.kind \notin {"pending", "none"} /\ ~called) => q.out = d.out
            /\ q.out.kind # "pending" => q.timer = NoTimer
            /\ q.out.kind = "pending" => q.timer >= 0
            /\ (called /\ q # d /\ q.hasSignal) =>
                  IF d.aborted
                  THEN q.out = Rejected(ReferenceError(d.reason))
                  ELSE q.out = Pending /\ q.timer = q.ms /\ q.elapsed = 0
            /\ (d.out.kind = "pending" /\ d.hasSignal /\ q # d /\ ~called) =>
                  CASE q.op = "fire" ->
                         /\ q.out = Resolved("")
                         /\ d.elapsed = d.ms /\ ~d.aborted
                    [] q.op = "abort" ->
                         /\ q.reason \in Messages
                         /\ q.out = Rejected(ReferenceError(q.reason))
                    [] q.op = "tick" ->
                         /\ q.out = Pending /\ q.elapsed <= q.ms
                    [] OTHER -> FALSE ]_vars

\* a delay of two seconds was aborted after one
C32_Witness ==
    /\ delay.op = "abort" /\ delay.hasSignal
    /\ delay.ms = 2 * OneSecond /\ delay.elapsed = OneSecond
    /\ delay.out = Rejected(ReferenceError("custom"))
    /\ delay.timer = NoTimer

\* the Fibonacci sequence 1, 1, 2, 3, 5, ...
RECURSIVE Fibonacci(_)
Fibonacci(n) == IF n <= 2 THEN 1 ELSE Fibonacci(n - 1) + Fibonacci(n - 2)

\* the seconds the claim gives for attempt n of a strategy
CappedCurve(by, maxSeconds, n) ==
    LET curve == IF by = "exponentialBackoff" THEN 2 ^ (n - 2) ELSE Fibonacci(n)
    IN  IF curve <= maxSeconds THEN curve ELSE maxSeconds

\* C33: for every attempt n >= 2 and cap maxSeconds the exponential
\* strategy waits min(2^(n-2), maxSeconds) seconds and the Fibonacci
\* strategy min(F(n), maxSeconds) seconds, 1, 2, 3, 5, 8, 13, 21, 34, 55 for
\* n = 2..10 without a cap; the delay never exceeds maxSeconds and does not
\* decrease with n.
C33_BackoffCurves ==
    /\ (delay.by # "none" /\ delay.attempt >= 2) =>
          /\ delay.ms = CappedCurve(delay.by, delay.maxSeconds, delay.attempt) * OneSecond
          /\ delay.out.kind = "result" => delay.elapsed = delay.ms
    /\ \A maxSeconds \in MaxSecondsSet, n \in 2..MaxBackoffAttempt :
          /\ exponentialBackoff(maxSeconds, n) <= maxSeconds
          /\ fibonacciBackoff(maxSeconds, n) <= maxSeconds
          /\ n > 2 => /\ exponentialBackoff(maxSeconds, n - 1)
                            <= exponentialBackoff(maxSeconds, n)
                      /\ fibonacciBackoff(maxSeconds, n - 1)
                            <= fibonacciBackoff(maxSeconds, n)
    /\ \A n \in 2..Min(10, MaxBackoffAttempt) :
          fibonacciBackoff(Infinity, n) = <<1, 2, 3, 5, 8, 13, 21, 34, 55>>[n - 1]

\* attempt 10 of the Fibonacci strategy without a cap resolved after 55 s,
\* and the capped exponential one is what the other witness shows
C33_Witness ==
    /\ delay.by = "fibonacciBackoff" /\ delay.maxSeconds = Infinity
    /\ delay.attempt = 10 /\ delay.out = Resolved("")
    /\ delay.elapsed = 55 * OneSecond

\* C38: once a retry or timeout wrapper is disposed it does not invoke the
\* wrapped operation: a call made after the disposal is rejected before the
\* operation is started.
C38_NoInvocationAfterDispose ==
    /\ withRetryFunction.startedAborted => withRetryFunction.invocations = 0
    /\ withTimeoutFunction.startedAborted => withTimeoutFunction.main = "none"

\* C31: in createCircuitBreaker(withRetry(withTimeout(op), {retryDelay:
\* backoff})), after dispose() on the breaker at any moment no timer of any
\* layer is scheduled (the timeout's once its queued reactions have run),
\* every pending call settles by the queued reactions alone, without op's
\* settlement or the delay's end, and op is not invoked again.
C31_DisposeThroughPipeline ==
    [][ /\ Disposed' =>
              /\ resetTimer' = NoTimer
              /\ \A c \in Slots : entries'[c].timer = NoTimer
              /\ delay'.timer = NoTimer
              /\ withTimeoutFunction'.phase \notin {"then", "finally"} =>
                    withTimeoutFunction'.timer = NoTimer
              /\ ~ComposedMicrotaskPending' =>
                    /\ withRetryFunction'.out.kind # "pending"
                    /\ withTimeoutFunction'.out.kind # "pending"
                    /\ delay'.out.kind # "pending"
                    /\ \A c \in Slots : calls'[c].phase = "idle"
        /\ Disposed =>
              /\ withRetryFunction'.invocations = withRetryFunction.invocations
              /\ ~(withTimeoutFunction' # withTimeoutFunction
                     /\ withTimeoutFunction'.op = "call") ]_vars

=============================================================================
